---- MODULE Spec2Model ----
(***************************************************************************)
(* The OSCE exam simulator: App (warning accumulator), Call (the exam      *)
(* session of components/WebcamProctor.tsx) and their timers.              *)
(*                                                                         *)
(* One step is one JavaScript task: a handler runs to completion and the   *)
(* React render it causes is committed with it.  What is NOT committed     *)
(* with it is what the source defers: examStateRef is written by an effect *)
(* (SyncExamStateRef), an awaited backend call resumes in a later step,    *)
(* and a callback that was created in an earlier render keeps the values   *)
(* it closed over (the snapshots in analyses).                              *)
(* Time is in milliseconds; Tick advances it and never passes a deadline.  *)
(* Strings are sequences of one-character strings.                         *)
(***************************************************************************)
EXTENDS Integers, Sequences, FiniteSets, TLC

VARIABLES
    \* ---- App
    examStarted, fullscreenWarnings, proctoringWarnings, isExamBlocked,
    warningMessage, hideTimers,
    \* ---- Call: React state and refs
    examState, examStateRef, status, transcripts,
    currentStudentTranscript, currentSpTranscript,
    silenceWarningVisible, unclearAudioWarning, isPatientSpeaking,
    silenceTimerRef, warningTimerRef, silenceTimers, warningTimers,
    unclearTimers,
    reconnectionAttempt, reconnectTimer, sessionPromiseRef,
    \* ---- Call: positions of the asynchronous functions
    initPc, startPc, feedbackPc,
    \* ---- the channels and the closure variables of connectToPatientSession
    patientCh, qaCh, currentInput, currentOutput,
    \* ---- the proctoring poller
    pollTimer, analyses,
    \* ---- observation only (never read by an action of the program)
    sinceArm, sinceClose, lastReconnect, attemptsMade, feedbackStarts, lastEvent,
    lastTurn,
    \* ---- streamDetailedExaminerFeedback: its local variables
    fullResponseText, feedbackSoFar,
    \* ---- triggerFeedbackPhase: its local variables, and the speech segments
    \* ---- in the order of the playQueuedAudio calls
    fullFeedbackText, textBuffer, audioQueue, speechSegments, awaited,
    \* ---- Lobby: React state and refs, the setups and analyses in flight, the
    \* ---- sessions of the microphone check
    isSetupActive, proctoringPassed, clearChecks, proctoringResult,
    setupsPending, proctoringIntervalRef, leakedIntervals, lobbyAnalyses,
    micCheckState, micTranscript, micSessions, micSessionRef,
    \* ---- Lobby, observation only: the latest results received and whether a
    \* ---- fragment was transcribed since the microphone check was started
    received, heardThisAttempt,
    \* ---- Call: the scorecard
    scoreData, isScoreVerified, isEditingScores, editedScoreData,
    \* ---- Call: the output audio context's currentTime, the start-time cursor
    \* ---- and the audio chunks of the patient and of the examiner channel, in
    \* ---- the order of their messages
    outputTime, nextStartTimeRef, patientAudio, qaAudio

appVars  == <<examStarted, fullscreenWarnings, proctoringWarnings, isExamBlocked,
              warningMessage, hideTimers>>
textVars == <<transcripts, currentStudentTranscript, currentSpTranscript,
              currentInput, currentOutput, unclearAudioWarning, unclearTimers,
              lastTurn>>
wdVars   == <<silenceTimerRef, warningTimerRef, silenceTimers, warningTimers>>
dogVars  == <<silenceWarningVisible, wdVars, sinceArm>>
connVars == <<reconnectionAttempt, reconnectTimer, sinceClose, lastReconnect,
              attemptsMade>>
chanVars == <<patientCh, qaCh, sessionPromiseRef>>
pcVars   == <<initPc, startPc, feedbackPc, feedbackStarts, isPatientSpeaking>>
pollVars == <<pollTimer, analyses>>
fbVars   == <<fullResponseText, feedbackSoFar, fullFeedbackText, textBuffer,
              audioQueue, speechSegments, awaited>>
camVars  == <<isSetupActive, proctoringPassed, clearChecks, proctoringResult,
              setupsPending, proctoringIntervalRef, leakedIntervals,
              lobbyAnalyses, received>>
micVars  == <<micCheckState, micTranscript, micSessions, micSessionRef,
              heardThisAttempt>>
lobbyVars == <<camVars, micVars>>
scoreVars == <<scoreData, isScoreVerified, isEditingScores, editedScoreData>>
audioVars == <<outputTime, nextStartTimeRef, patientAudio, qaAudio>>
extVars  == <<fbVars, lobbyVars, scoreVars, audioVars>>
\* What the lobby, the feedback stream and the scorecard each leave alone
exLobby  == <<fbVars, scoreVars, audioVars>>
exFb     == <<lobbyVars, scoreVars, audioVars>>
exScore  == <<fbVars, lobbyVars, audioVars>>
vars == <<extVars, appVars, textVars, dogVars, connVars, chanVars, pcVars, pollVars,
          examState, examStateRef, status, lastEvent>>

----------------------------------------------------------------------------
\* Bounds of the model
MaxAnalyses   == 2   \* frame analyses in flight at once
MaxTranscript == 2   \* transcript entries appended by conversation turns
MaxText       == 2   \* characters transcribed within one turn
AttemptsCap   == 6   \* where the count of reconnection attempts saturates
MaxFeedback   == 5   \* characters of the response of the feedback stream
MaxSetups     == 2   \* clicks on Start Setup while the camera is requested
MaxClearChecks == 3  \* where the count of clean results stops
MaxMicAttempts == 2  \* microphone checks started in the lobby
MaxQaAudio    == 2   \* audio chunks received on the examiner channel
MaxPatientAudio == 2 \* audio chunks received on the patient channel
MaxChunkDuration == 2 \* the longest audio chunk, in units of the output clock
MaxOutputTime == 4   \* where the clock of the output audio context stops

\* Constants of the program
FullscreenLimit == 2
WarningLimit    == 5
HideDelay       == 3000
PollInterval    == 7000
WarnDelay       == 15000
SilenceDelay    == 20000
ReconnectBase   == 2000
MaxReconnect    == 5
UnclearDelay    == 3000
ClearThreshold  == 2
StarCount       == 5

NoTimer == -1

Phases == <<"initializing", "ready", "in-progress", "feedback", "q&a", "ended">>

Min(a, b) == IF a < b THEN a ELSE b

\* The pending timers among a set of remaining times
Pending(ts) == {t \in ts : t # NoTimer}

----------------------------------------------------------------------------
\* The white space of the texts (blank and newline)
Whitespace == {" ", "\n"}

\* String.prototype.trim on a sequence of characters
RECURSIVE TrimStart(_)
TrimStart(s) ==
    IF s # <<>> /\ Head(s) \in Whitespace THEN TrimStart(Tail(s)) ELSE s

RECURSIVE TrimEnd(_)
TrimEnd(s) ==
    IF s # <<>> /\ s[Len(s)] \in Whitespace
    THEN TrimEnd(SubSeq(s, 1, Len(s) - 1)) ELSE s

Trim(s) == TrimEnd(TrimStart(s))

----------------------------------------------------------------------------
\* App: the warning accumulator

totalWarnings == fullscreenWarnings + proctoringWarnings

NoMessage == [kind |-> "none", n |-> 0]
LockedMessage == [kind |-> "Exam locked. You have exited fullscreen mode multiple times.", n |-> 0]
TerminatedMessage == [kind |-> "Exam terminated after 5 warnings.", n |-> 0]
\* `${what}. Warning ${n} of 5.`
WarningText(what, n) == [kind |-> what, n |-> n]

\* session.close() on the channel sessionPromiseRef points to
CloseSession(ch, isCurrent) ==
    IF ~isCurrent THEN ch
    ELSE CASE ch = "open" -> "closing"
           [] ch = "connecting" -> "connectingClose"
           [] OTHER -> ch

\* clearTimeout of silenceTimerRef.current and of warningTimerRef.current, the
\* timers sts and wts being pending; a timer id that is cleared or has fired
\* refers to nothing
clearTimeouts(sts, wts) ==
    /\ silenceTimers' = sts \ {silenceTimerRef}
    /\ warningTimers' = wts \ {warningTimerRef}
    /\ silenceTimerRef' = NoTimer
    /\ warningTimerRef' = NoTimer

\* Call.handleEndExam, the channels being in states pch and qch
handleEndExam(pch, qch) ==
    /\ examState' = "ended"
    /\ patientCh' = CloseSession(pch, sessionPromiseRef = "patient")
    /\ qaCh' = CloseSession(qch, sessionPromiseRef = "qa")
    /\ clearTimeouts(silenceTimers, warningTimers)
    /\ sinceArm' = 0

endVars == <<examState, patientCh, qaCh, wdVars, sinceArm>>

\* Call: the effect on [isBlocked], run when the prop has become true
isBlockedEffect ==
    /\ handleEndExam(patientCh, qaCh)
    /\ status' = "Exam Terminated."

\* Call: the polling effect on [examState, isBlocked, runProctoringCheck]: the
\* interval is cleared and, in phase in-progress while not blocked, set again
\* whenever one of the three changes
PollEffect(phase, blocked, changed) ==
    IF phase = "in-progress" /\ ~blocked
    THEN IF changed \/ pollTimer = NoTimer THEN PollInterval ELSE pollTimer
    ELSE NoTimer

\* The same update without the messages of the block
AppCommit_KeepsWarning(fs, pw, warning, locked) ==
    LET terminated == ~locked /\ ~isExamBlocked /\ fs + pw >= WarningLimit
        blocked == isExamBlocked \/ locked \/ terminated
    IN  /\ fullscreenWarnings' = fs
        /\ proctoringWarnings' = pw
        /\ isExamBlocked' = blocked
        /\ warningMessage' = warning
        /\ hideTimers' = hideTimers \cup {HideDelay}
        /\ IF blocked /\ ~isExamBlocked
           THEN isBlockedEffect
           ELSE UNCHANGED <<endVars, status>>
        /\ pollTimer' = PollEffect(examState', blocked, TRUE)

\* App: the render after fullscreenWarnings/proctoringWarnings became fs/pw,
\* with the effect on [totalWarnings, isExamBlocked] and, in Call, the effects
\* on [isBlocked].  locked: the handler itself has set isExamBlocked.
AppCommit(fs, pw, warning, locked) ==
    LET terminated == ~locked /\ ~isExamBlocked /\ fs + pw >= WarningLimit
        blocked == isExamBlocked \/ locked \/ terminated
    IN  /\ fullscreenWarnings' = fs
        /\ proctoringWarnings' = pw
        /\ isExamBlocked' = blocked
        /\ warningMessage' = IF locked THEN LockedMessage
                             ELSE IF terminated THEN TerminatedMessage
                             ELSE warning
        /\ hideTimers' = hideTimers \cup {HideDelay}
        /\ IF blocked /\ ~isExamBlocked
           THEN isBlockedEffect
           ELSE UNCHANGED <<endVars, status>>
        /\ pollTimer' = PollEffect(examState', blocked, TRUE)

\* App.handleStartExam, called by the lobby (onStartExam): Call is mounted and
\* its initialization effect starts initializeExam
mountCall ==
    /\ examStarted' = TRUE
    /\ initPc' = "media"
    /\ status' = "Requesting permissions..."
    /\ lastEvent' = "mount"
    /\ UNCHANGED <<fullscreenWarnings, proctoringWarnings, isExamBlocked,
                   warningMessage, hideTimers, textVars, dogVars, connVars,
                   chanVars, startPc, feedbackPc, feedbackStarts,
                   isPatientSpeaking, pollVars, examState, examStateRef>>

\* The same with the lobby left out: the exam is started at any time
onStartExam ==
    /\ ~examStarted
    /\ mountCall
    /\ UNCHANGED extVars

\* App.handleFullscreenChange on an exit from fullscreen.  The listener is
\* registered again after every render, so it sees the current state.
handleFullscreenChange ==
    /\ examStarted
    /\ lastEvent' = "fullscreen"
    /\ IF isExamBlocked
       THEN UNCHANGED <<fullscreenWarnings, proctoringWarnings, isExamBlocked,
                        warningMessage, hideTimers, endVars, status, pollTimer>>
       ELSE LET newCount == fullscreenWarnings + 1
            IN  AppCommit(newCount, proctoringWarnings,
                          WarningText("Fullscreen exited", totalWarnings + 1),
                          newCount >= FullscreenLimit)
    /\ UNCHANGED <<examStarted, textVars, silenceWarningVisible, connVars,
                   sessionPromiseRef, pcVars, analyses, examStateRef, extVars>>

\* App.handleProctoringViolation as the closure `c` made in an earlier render:
\* c.blk, c.pw and c.tw are isExamBlocked, proctoringWarnings and totalWarnings
\* of that render
handleProctoringViolation(c) ==
    IF c.blk
    THEN UNCHANGED <<fullscreenWarnings, proctoringWarnings, isExamBlocked,
                     warningMessage, hideTimers, endVars, status, pollTimer>>
    ELSE AppCommit(fullscreenWarnings, c.pw + 1,
                   WarningText("Proctoring Alert", c.tw + 1), FALSE)

----------------------------------------------------------------------------
\* Call: the silence watchdog

\* resetSilenceTimer without its clearTimeout of silenceTimerRef.current
resetSilenceTimer_KeepsSilence ==
    /\ silenceWarningVisible' = FALSE
    /\ IF examStateRef = "in-progress"
       THEN /\ warningTimers' = (warningTimers \ {warningTimerRef}) \cup {WarnDelay}
            /\ silenceTimers' = silenceTimers \cup {SilenceDelay}
            /\ warningTimerRef' = WarnDelay
            /\ silenceTimerRef' = SilenceDelay
       ELSE clearTimeouts(silenceTimers, warningTimers)
    /\ sinceArm' = 0

\* resetSilenceTimer without its two clearTimeout calls
resetSilenceTimer_NoClear ==
    /\ silenceWarningVisible' = FALSE
    /\ IF examStateRef = "in-progress"
       THEN /\ warningTimers' = warningTimers \cup {WarnDelay}
            /\ silenceTimers' = silenceTimers \cup {SilenceDelay}
            /\ warningTimerRef' = WarnDelay
            /\ silenceTimerRef' = SilenceDelay
       ELSE UNCHANGED wdVars
    /\ sinceArm' = 0

\* Call.resetSilenceTimer
resetSilenceTimer ==
    /\ silenceWarningVisible' = FALSE
    /\ IF examStateRef = "in-progress"
       THEN /\ warningTimers' = (warningTimers \ {warningTimerRef}) \cup {WarnDelay}
            /\ silenceTimers' = (silenceTimers \ {silenceTimerRef}) \cup {SilenceDelay}
            /\ warningTimerRef' = WarnDelay
            /\ silenceTimerRef' = SilenceDelay
       ELSE clearTimeouts(silenceTimers, warningTimers)
    /\ sinceArm' = 0

\* The callback of a warning timer
WarningTimerFire ==
    /\ 0 \in warningTimers
    /\ examStateRef = examState
    /\ warningTimers' = warningTimers \ {0}
    /\ warningTimerRef' = IF warningTimerRef = 0 THEN NoTimer ELSE warningTimerRef
    /\ silenceWarningVisible' = TRUE
    /\ lastEvent' = "warningTimer"
    /\ UNCHANGED <<appVars, textVars, silenceTimers, silenceTimerRef, sinceArm,
                   connVars, chanVars, pcVars, pollVars, examState, examStateRef,
                   status, extVars>>

ExaminerPlaceholder == [role |-> "Examiner", text |-> <<".", ".", ".">>]

\* triggerFeedbackPhase without its check of examStateRef
triggerFeedbackPhase_NoGuard ==
    /\ clearTimeouts(silenceTimers \ {0}, warningTimers)
    /\ examState' = "feedback"
    /\ status' = "Interaction complete. Generating feedback and scores..."
    /\ patientCh' = CloseSession(patientCh, sessionPromiseRef = "patient")
    /\ qaCh' = CloseSession(qaCh, sessionPromiseRef = "qa")
    /\ transcripts' = Append(transcripts, ExaminerPlaceholder)
    /\ feedbackPc' = [feedbackPc EXCEPT !.streaming = @ + 1]
    /\ feedbackStarts' = feedbackStarts + 1
    /\ pollTimer' = NoTimer

\* Call.triggerFeedbackPhase up to its first await.  Its only caller is the
\* callback of a silence timer, whose timer (remaining time 0) has fired.
triggerFeedbackPhase ==
    IF examStateRef # "in-progress"
    THEN /\ silenceTimers' = silenceTimers \ {0}
         /\ silenceTimerRef' = IF silenceTimerRef = 0 THEN NoTimer ELSE silenceTimerRef
         /\ UNCHANGED <<warningTimers, warningTimerRef, examState, status,
                        patientCh, qaCh, transcripts, feedbackPc, feedbackStarts,
                        pollTimer>>
    ELSE /\ clearTimeouts(silenceTimers \ {0}, warningTimers)
         /\ examState' = "feedback"
         /\ status' = "Interaction complete. Generating feedback and scores..."
         /\ patientCh' = CloseSession(patientCh, sessionPromiseRef = "patient")
         /\ qaCh' = CloseSession(qaCh, sessionPromiseRef = "qa")
         /\ transcripts' = Append(transcripts, ExaminerPlaceholder)
         /\ feedbackPc' = [feedbackPc EXCEPT !.streaming = @ + 1]
         /\ feedbackStarts' = feedbackStarts + 1
         /\ pollTimer' = PollEffect("feedback", isExamBlocked, TRUE)

\* The callback of a silence timer without its setSilenceWarningVisible(false)
SilenceTimerFire_KeepsWarning ==
    /\ 0 \in silenceTimers
    /\ examStateRef = examState
    /\ UNCHANGED silenceWarningVisible
    /\ triggerFeedbackPhase
    /\ sinceArm' = IF silenceTimers' = {} /\ warningTimers' = {} THEN 0 ELSE sinceArm
    /\ lastEvent' = IF examStateRef = "in-progress" THEN "silenceTimer"
                                                    ELSE "silenceTimerLate"
    /\ UNCHANGED <<appVars, currentStudentTranscript, currentSpTranscript,
                   currentInput, currentOutput, unclearAudioWarning, unclearTimers,
                   lastTurn,
                   connVars, sessionPromiseRef, initPc, startPc, isPatientSpeaking,
                   analyses, examStateRef, extVars>>

\* The callback of a silence timer
SilenceTimerFire ==
    /\ 0 \in silenceTimers
    /\ examStateRef = examState
    /\ silenceWarningVisible' = FALSE
    /\ triggerFeedbackPhase
    /\ sinceArm' = IF silenceTimers' = {} /\ warningTimers' = {} THEN 0 ELSE sinceArm
    /\ lastEvent' = IF examStateRef = "in-progress" THEN "silenceTimer"
                                                    ELSE "silenceTimerLate"
    /\ UNCHANGED <<appVars, currentStudentTranscript, currentSpTranscript,
                   currentInput, currentOutput, unclearAudioWarning, unclearTimers,
                   lastTurn,
                   connVars, sessionPromiseRef, initPc, startPc, isPatientSpeaking,
                   analyses, examStateRef, extVars>>

\* The effect that copies examState into examStateRef after a render
SyncExamStateRef ==
    /\ examStateRef # examState
    /\ examStateRef' = examState
    /\ lastEvent' = "effect"
    /\ UNCHANGED <<appVars, textVars, dogVars, connVars, chanVars, pcVars,
                   pollVars, examState, status, extVars>>

----------------------------------------------------------------------------
\* Call: the patient channel

\* Call.connectToPatientSession: a new channel with its own currentInput and
\* currentOutput, which becomes the session of sessionPromiseRef
connectToPatientSession ==
    /\ patientCh' = "connecting"
    /\ currentInput' = <<>>
    /\ currentOutput' = <<>>
    /\ sessionPromiseRef' = "patient"

Live(ch) == ch \in {"connecting", "connectingClose", "open", "closing"}

\* onopen of the patient channel; a close requested while it was connecting
\* is carried out now
PatientOpen ==
    /\ patientCh \in {"connecting", "connectingClose"}
    /\ patientCh' = IF patientCh = "connecting" THEN "open" ELSE "closing"
    /\ status' = "Live session open."
    /\ reconnectionAttempt' = 0
    /\ lastEvent' = "patientOpen"
    /\ UNCHANGED <<appVars, textVars, dogVars, reconnectTimer, sinceClose,
                   lastReconnect, attemptsMade, qaCh, sessionPromiseRef, pcVars,
                   pollVars, examState, examStateRef, extVars>>

\* onerror of the patient channel
PatientError ==
    /\ Live(patientCh)
    /\ status' = "Connection error. Attempting to reconnect..."
    /\ lastEvent' = "patientError"
    /\ UNCHANGED <<appVars, textVars, dogVars, connVars, chanVars, pcVars,
                   pollVars, examState, examStateRef, extVars>>

\* onclose with one more reconnection allowed (<= 5 in place of < 5)
PatientClose_OffByOne(unexpected) ==
    /\ IF unexpected THEN Live(patientCh) ELSE patientCh = "closing"
    /\ patientCh' = "closed"
    /\ IF examStateRef = "in-progress"
       THEN IF reconnectionAttempt <= MaxReconnect
            THEN /\ status' = "Connection closed. Reconnecting..."
                 /\ reconnectTimer' = ReconnectBase * reconnectionAttempt
                 /\ sinceClose' = 0
                 /\ lastEvent' = "patientClose"
            ELSE /\ status' = "Connection failed permanently. Please refresh."
                 /\ lastEvent' = "patientCloseFinal"
                 /\ UNCHANGED <<reconnectTimer, sinceClose>>
       ELSE /\ status' = "Patient session closed."
            /\ lastEvent' = "patientCloseQuiet"
            /\ UNCHANGED <<reconnectTimer, sinceClose>>
    /\ UNCHANGED <<appVars, textVars, dogVars, reconnectionAttempt, lastReconnect,
                   attemptsMade, qaCh, sessionPromiseRef, pcVars, pollVars,
                   examState, examStateRef, extVars>>

\* onclose of the patient channel: a close requested by the session has
\* completed or, when unexpected, the backend closed it or the connection failed
PatientClose(unexpected) ==
    /\ IF unexpected THEN Live(patientCh) ELSE patientCh = "closing"
    /\ patientCh' = "closed"
    /\ IF examStateRef = "in-progress"
       THEN IF reconnectionAttempt < MaxReconnect
            THEN /\ status' = "Connection closed. Reconnecting..."
                 /\ reconnectTimer' = ReconnectBase * reconnectionAttempt
                 /\ sinceClose' = 0
                 /\ lastEvent' = "patientClose"
            ELSE /\ status' = "Connection failed permanently. Please refresh."
                 /\ lastEvent' = "patientCloseFinal"
                 /\ UNCHANGED <<reconnectTimer, sinceClose>>
       ELSE /\ status' = "Patient session closed."
            /\ lastEvent' = "patientCloseQuiet"
            /\ UNCHANGED <<reconnectTimer, sinceClose>>
    /\ UNCHANGED <<appVars, textVars, dogVars, reconnectionAttempt, lastReconnect,
                   attemptsMade, qaCh, sessionPromiseRef, pcVars, pollVars,
                   examState, examStateRef, extVars>>

\* The callback of the reconnection timer set by onclose
ReconnectTimerFire ==
    /\ reconnectTimer = 0
    /\ examStateRef = examState
    /\ reconnectTimer' = NoTimer
    /\ reconnectionAttempt' = reconnectionAttempt + 1
    /\ connectToPatientSession
    /\ lastReconnect' = [n |-> reconnectionAttempt + 1, delay |-> sinceClose]
    /\ attemptsMade' = Min(attemptsMade + 1, AttemptsCap)
    /\ sinceClose' = 0
    /\ lastEvent' = "reconnect"
    /\ UNCHANGED <<appVars, transcripts, currentStudentTranscript,
                   currentSpTranscript, unclearAudioWarning, unclearTimers,
                   lastTurn,
                   dogVars, qaCh, pcVars, pollVars, examState, examStateRef,
                   status, extVars>>

\* The transcript entries of a completed turn with the patient's entry first
TurnEntries_SpFirst(studentText, spText) ==
    (IF spText # <<>> THEN <<[role |-> "SP", text |-> spText]>> ELSE <<>>)
    \o (IF studentText # <<>> THEN <<[role |-> "Student", text |-> studentText]>>
                              ELSE <<>>)

\* The transcript entries of a completed turn
TurnEntries(studentText, spText) ==
    (IF studentText # <<>> THEN <<[role |-> "Student", text |-> studentText]>>
                           ELSE <<>>)
    \o (IF spText # <<>> THEN <<[role |-> "SP", text |-> spText]>> ELSE <<>>)

\* onmessage of the patient channel, for a message with the input
\* transcription inp, the output transcription out (<<>>: none) and
\* turnComplete tc, in a conversation of at most limit transcript entries.
\* Messages still arrive while a requested close is under way.
PatientMessageUpTo(limit, inp, out, tc) ==
    LET newInput == currentInput \o inp
        newOutput == currentOutput \o out
        studentText == Trim(newInput)
        spText == Trim(newOutput)
        newTranscripts == TurnEntries(studentText, spText)
    IN  /\ patientCh \in {"open", "closing"}
        /\ Len(newInput) + Len(newOutput) <= MaxText
        /\ IF tc
           THEN /\ Len(transcripts) + Len(newTranscripts) <= limit
                /\ IF studentText = <<>> /\ spText = <<>> /\ Len(newInput) > 0
                   THEN /\ unclearAudioWarning' = TRUE
                        /\ unclearTimers' = unclearTimers \cup {UnclearDelay}
                   ELSE UNCHANGED <<unclearAudioWarning, unclearTimers>>
                /\ transcripts' = transcripts \o newTranscripts
                /\ lastTurn' = [input |-> newInput, output |-> newOutput]
                /\ resetSilenceTimer
                /\ currentInput' = <<>>
                /\ currentOutput' = <<>>
                /\ currentStudentTranscript' = <<>>
                /\ currentSpTranscript' = <<>>
                /\ lastEvent' = IF examState = "in-progress" /\ warningTimerRef # NoTimer
                                THEN "turnCompleteArmed" ELSE "turnComplete"
           ELSE /\ currentInput' = newInput
                /\ currentOutput' = newOutput
                /\ currentStudentTranscript' = newInput
                /\ currentSpTranscript' = newOutput
                /\ lastEvent' = "transcription"
                /\ lastTurn' = [input |-> <<>>, output |-> <<>>]
                /\ UNCHANGED <<transcripts, unclearAudioWarning, unclearTimers,
                               dogVars>>
        /\ UNCHANGED <<appVars, connVars, chanVars, pcVars, pollVars, examState,
                       examStateRef, status, extVars>>

PatientMessage(inp, out, tc) == PatientMessageUpTo(MaxTranscript, inp, out, tc)

\* The callback of the timer that hides the unclear-audio notice
UnclearTimerFire ==
    /\ 0 \in unclearTimers
    /\ examStateRef = examState
    /\ unclearTimers' = unclearTimers \ {0}
    /\ unclearAudioWarning' = FALSE
    /\ lastEvent' = "unclearTimer"
    /\ UNCHANGED <<appVars, transcripts, currentStudentTranscript,
                   currentSpTranscript, currentInput, currentOutput, lastTurn,
                   dogVars, connVars, chanVars, pcVars, pollVars, examState,
                   examStateRef, status, extVars>>

----------------------------------------------------------------------------
\* Call: the phases

\* initializeExam after getUserMedia: the audio contexts are made and the
\* patient channel is requested (ok), or the catch block reports the failure
InitMedia(ok) ==
    /\ initPc = "media"
    /\ IF ok
       THEN /\ connectToPatientSession
            /\ status' = "Generating introductions..."
            /\ initPc' = "greet"
       ELSE /\ status' = "Error: Could not access camera or microphone."
            /\ initPc' = "failed"
            /\ UNCHANGED <<patientCh, currentInput, currentOutput,
                           sessionPromiseRef>>
    /\ lastEvent' = "initMedia"
    /\ UNCHANGED <<appVars, transcripts, currentStudentTranscript,
                   currentSpTranscript, unclearAudioWarning, unclearTimers,
                   lastTurn,
                   dogVars, connVars, qaCh, startPc, feedbackPc, feedbackStarts,
                   isPatientSpeaking, pollVars, examState, examStateRef,
                   extVars>>

\* initializeExam after the two greetings were synthesized and played (ok), or
\* the catch block after one of them threw
InitGreeted(ok) ==
    /\ initPc = "greet"
    /\ IF ok
       THEN /\ status' = "Please press Ready to begin."
            /\ examState' = "ready"
            /\ initPc' = "done"
       ELSE /\ status' = "Error: Could not access camera or microphone."
            /\ initPc' = "failed"
            /\ UNCHANGED examState
    /\ pollTimer' = PollEffect(examState', isExamBlocked, examState' # examState)
    /\ lastEvent' = "initGreeted"
    /\ UNCHANGED <<appVars, textVars, dogVars, connVars, chanVars, startPc,
                   feedbackPc, feedbackStarts, isPatientSpeaking, analyses,
                   examStateRef, extVars>>

\* Call.handleStartExam up to its await; the button is rendered in phase ready
\* while not blocked
handleStartExam ==
    /\ examState = "ready"
    /\ ~isExamBlocked
    /\ examState' = "in-progress"
    /\ status' = "Connected. You may begin speaking."
    /\ startPc' = "tts"
    /\ pollTimer' = PollEffect("in-progress", isExamBlocked, TRUE)
    /\ lastEvent' = "start"
    /\ UNCHANGED <<appVars, textVars, dogVars, connVars, chanVars, initPc,
                   feedbackPc, feedbackStarts, isPatientSpeaking, analyses,
                   examStateRef, extVars>>

\* handleStartExam after textToSpeech("Hello, doctor."): audio to play, or null.
\* The call takes a backend round trip, the render of the click has happened.
StartGreeting(hasAudio) ==
    /\ startPc = "tts"
    /\ examStateRef # "ready"
    /\ IF hasAudio
       THEN /\ isPatientSpeaking' = TRUE
            /\ startPc' = "playing"
            /\ UNCHANGED dogVars
       ELSE /\ resetSilenceTimer
            /\ startPc' = "done"
            /\ UNCHANGED isPatientSpeaking
    /\ lastEvent' = "startGreeting"
    /\ UNCHANGED <<appVars, textVars, connVars, chanVars, initPc, feedbackPc,
                   feedbackStarts, pollVars, examState, examStateRef, status,
                   extVars>>

\* handleStartExam whose catch block does not call resetSilenceTimer
StartPlayback_NoArm(ok) ==
    /\ startPc = "playing"
    /\ isPatientSpeaking' = IF ok THEN FALSE ELSE isPatientSpeaking
    /\ IF ok THEN resetSilenceTimer ELSE UNCHANGED dogVars
    /\ startPc' = "done"
    /\ lastEvent' = "startPlayback"
    /\ UNCHANGED <<appVars, textVars, connVars, chanVars, initPc, feedbackPc,
                   feedbackStarts, pollVars, examState, examStateRef, status,
                   extVars>>

\* handleStartExam after playAudio: the greeting has ended (onEnded), or
\* decoding it threw and the catch block runs
StartPlayback(ok) ==
    /\ startPc = "playing"
    /\ isPatientSpeaking' = IF ok THEN FALSE ELSE isPatientSpeaking
    /\ resetSilenceTimer
    /\ startPc' = "done"
    /\ lastEvent' = "startPlayback"
    /\ UNCHANGED <<appVars, textVars, connVars, chanVars, initPc, feedbackPc,
                   feedbackStarts, pollVars, examState, examStateRef, status,
                   extVars>>

FeedbackText == <<"o", "k", ".">>

\* The text of the last transcript entry replaced, if it is an Examiner entry
RewritePlaceholder(ts, text) ==
    IF ts # <<>> /\ ts[Len(ts)].role = "Examiner"
    THEN [ts EXCEPT ![Len(ts)].text = text]
    ELSE ts

\* triggerFeedbackPhase after streamDetailedExaminerFeedback has returned
FeedbackStreamEnd ==
    /\ feedbackPc.streaming > 0
    /\ feedbackPc' = [streaming |-> feedbackPc.streaming - 1,
                      playing |-> feedbackPc.playing + 1]
    /\ transcripts' = RewritePlaceholder(transcripts, FeedbackText)
    /\ lastEvent' = "feedbackStreamEnd"
    /\ UNCHANGED <<appVars, currentStudentTranscript, currentSpTranscript,
                   currentInput, currentOutput, unclearAudioWarning, unclearTimers,
                   lastTurn,
                   dogVars, connVars, chanVars, initPc, startPc, feedbackStarts,
                   isPatientSpeaking, pollVars, examState, examStateRef, status,
                   extVars>>

\* Call.connectToExaminerQASession
connectToExaminerQASession ==
    /\ qaCh' = "connecting"
    /\ sessionPromiseRef' = "qa"

\* triggerFeedbackPhase after Promise.all(audioQueue)
FeedbackAudioEnd ==
    /\ feedbackPc.playing > 0
    /\ feedbackPc' = [feedbackPc EXCEPT !.playing = @ - 1]
    /\ examState' = "q&a"
    /\ connectToExaminerQASession
    /\ pollTimer' = PollEffect("q&a", isExamBlocked, examState # "q&a")
    /\ lastEvent' = "feedbackAudioEnd"
    /\ UNCHANGED <<appVars, textVars, dogVars, connVars, patientCh, initPc,
                   startPc, feedbackStarts, isPatientSpeaking, analyses,
                   examStateRef, status, extVars>>

\* onopen of the examiner channel
QaOpen ==
    /\ qaCh \in {"connecting", "connectingClose"}
    /\ qaCh' = IF qaCh = "connecting" THEN "open" ELSE "closing"
    /\ status' = "You may ask the examiner questions now."
    /\ lastEvent' = "qaOpen"
    /\ UNCHANGED <<appVars, textVars, dogVars, connVars, patientCh,
                   sessionPromiseRef, pcVars, pollVars, examState, examStateRef,
                   extVars>>

\* onclose of the examiner channel
QaClose ==
    /\ Live(qaCh)
    /\ IF examStateRef # "ended"
       THEN /\ handleEndExam(patientCh, "closed")
            /\ pollTimer' = PollEffect("ended", isExamBlocked, examState # "ended")
       ELSE /\ qaCh' = "closed"
            /\ UNCHANGED <<examState, patientCh, wdVars, sinceArm, pollTimer>>
    /\ lastEvent' = "qaClose"
    /\ UNCHANGED <<appVars, textVars, silenceWarningVisible, connVars,
                   sessionPromiseRef, pcVars, analyses, examStateRef, status,
                   extVars>>

\* The End Exam button, rendered in phase q&a while not blocked
EndExamClick ==
    /\ examState = "q&a"
    /\ ~isExamBlocked
    /\ handleEndExam(patientCh, qaCh)
    /\ pollTimer' = PollEffect("ended", isExamBlocked, TRUE)
    /\ lastEvent' = "endClick"
    /\ UNCHANGED <<appVars, textVars, silenceWarningVisible, connVars,
                   sessionPromiseRef, pcVars, analyses, examStateRef, status,
                   extVars>>

----------------------------------------------------------------------------
\* Call: the proctoring poller

\* What the onViolation of the current render closes over
Closure == [blk |-> isExamBlocked, pw |-> proctoringWarnings, tw |-> totalWarnings]

RemoveAt(q, i) == SubSeq(q, 1, i - 1) \o SubSeq(q, i + 1, Len(q))

\* analyzeStudentFrame that reports a failed analysis as a violation
analyzeStudentFrame_Penalizes(outcome) ==
    IF outcome = "clear"
    THEN [isCheating |-> FALSE, reason |-> "All clear"]
    ELSE [isCheating |-> TRUE, reason |-> "Possible use of a mobile phone detected."]

\* geminiService.analyzeStudentFrame: the verdict of the backend, or the
\* result its catch block returns when the request or the parsing failed
analyzeStudentFrame(outcome) ==
    IF outcome = "cheating"
    THEN [isCheating |-> TRUE, reason |-> "Possible use of a mobile phone detected."]
    ELSE IF outcome = "clear"
    THEN [isCheating |-> FALSE, reason |-> "All clear"]
    ELSE [isCheating |-> FALSE,
          reason |-> "AI analysis failed. Check console for details."]

\* A tick of the polling interval: Call.runProctoringCheck up to its await.
\* videoReady: localVideoRef.current.readyState >= 2.
PollTimerFire(videoReady) ==
    /\ pollTimer = 0
    /\ examStateRef = examState
    /\ pollTimer' = PollInterval
    /\ analyses' = IF videoReady /\ ~isExamBlocked /\ Len(analyses) < MaxAnalyses
                   THEN Append(analyses, Closure)
                   ELSE analyses
    /\ lastEvent' = "poll"
    /\ UNCHANGED <<appVars, textVars, dogVars, connVars, chanVars, pcVars,
                   examState, examStateRef, status, extVars>>

\* runProctoringCheck after analyzeStudentFrame has returned for the i-th
\* analysis in flight: a cheating verdict, a clean one, or the verdict
\* analyzeStudentFrame makes of a failure
AnalysisReturn(i, result) ==
    /\ i \in 1..Len(analyses)
    /\ analyses' = RemoveAt(analyses, i)
    /\ IF analyzeStudentFrame(result).isCheating
       THEN handleProctoringViolation(analyses[i])
       ELSE UNCHANGED <<fullscreenWarnings, proctoringWarnings, isExamBlocked,
                        warningMessage, hideTimers, endVars, status, pollTimer>>
    /\ lastEvent' = IF result = "failed" THEN "analysisFailed"
                    ELSE IF isExamBlocked THEN "analysisLate"
                    ELSE IF result = "cheating" THEN "analysisCheating"
                    ELSE "analysisClear"
    /\ UNCHANGED <<examStarted, textVars, silenceWarningVisible, connVars,
                   sessionPromiseRef, pcVars, examStateRef, extVars>>

\* The callback of a timer set by App.showWarning
HideTimerFire ==
    /\ 0 \in hideTimers
    /\ examStateRef = examState
    /\ hideTimers' = hideTimers \ {0}
    /\ warningMessage' = NoMessage
    /\ lastEvent' = "hideTimer"
    /\ UNCHANGED <<examStarted, fullscreenWarnings, proctoringWarnings,
                   isExamBlocked, textVars, dogVars, connVars, chanVars, pcVars,
                   pollVars, examState, examStateRef, status, extVars>>

----------------------------------------------------------------------------
\* Call and geminiService: the feedback stream and its speech

\* !s.trim()
IsBlank(s) == \A k \in 1..Len(s) : s[k] \in Whitespace

\* punctuation of processTextForSpeech
Punctuation == {".", "?", "!", "\n"}

\* scoreStartTag, shortened to two characters
ScoreStartTag == <<"S", "J">>

\* shortFeedback and errorMsg of streamDetailedExaminerFeedback, shortened
ShortFeedback == <<"b", ".">>
ErrorMsg == <<"e", ".">>

\* textBuffer.split('').findIndex(char => punctuation.includes(char)) + 1
FirstPunctuation(buf) ==
    IF \E i \in 1..Len(buf) : buf[i] \in Punctuation
    THEN CHOOSE i \in 1..Len(buf) :
             /\ buf[i] \in Punctuation
             /\ \A k \in 1..(i - 1) : buf[k] \notin Punctuation
    ELSE 0

\* The while loop of processTextForSpeech on the buffer buf: what is left of
\* the buffer and the sentences passed to playQueuedAudio
RECURSIVE SplitSentences(_)
SplitSentences(buf) ==
    LET idx == FirstPunctuation(buf)
    IN  IF idx = 0
        THEN [rest |-> buf, queued |-> <<>>]
        ELSE LET sentence == SubSeq(buf, 1, idx)
                 r == SplitSentences(SubSeq(buf, idx + 1, Len(buf)))
             IN  [rest |-> r.rest,
                  queued |-> (IF ~IsBlank(sentence) THEN <<sentence>> ELSE <<>>)
                             \o r.queued]

\* processTextForSpeech that never passes on what is left of the buffer
processTextForSpeech_NoFlush(buf, isLastChunk) == SplitSentences(buf)

\* processTextForSpeech(isLastChunk) on the buffer buf
processTextForSpeech(buf, isLastChunk) ==
    LET r == SplitSentences(buf)
    IN  IF isLastChunk /\ ~IsBlank(r.rest)
        THEN [rest |-> <<>>, queued |-> Append(r.queued, r.rest)]
        ELSE r

\* playQueuedAudio up to its await, for each of the texts: a synthesis
\* request per text that is not blank
playQueuedAudio(texts) ==
    LET spoken == SelectSeq(texts, LAMBDA t : ~IsBlank(t))
    IN  [k \in 1..Len(spoken) |-> [text |-> spoken[k], st |-> "synth"]]

\* onChunkReceived(textChunk) on f, the values of fullFeedbackText (full),
\* textBuffer (buf) and the speech segments (segs)
onChunkReceived(f, textChunk) ==
    LET r == processTextForSpeech(f.buf \o textChunk, FALSE)
    IN  [full |-> f.full \o textChunk,
         buf |-> r.rest,
         segs |-> f.segs \o playQueuedAudio(r.queued)]

FeedbackLocals ==
    [full |-> fullFeedbackText, buf |-> textBuffer, segs |-> speechSegments]

\* The index of the first occurrence of tag in s, 0 if there is none
TagIndex(s, tag) ==
    LET at(i) == i + Len(tag) - 1 <= Len(s) /\ SubSeq(s, i, i + Len(tag) - 1) = tag
    IN  IF \E i \in 1..Len(s) : at(i)
        THEN CHOOSE i \in 1..Len(s) : at(i) /\ \A k \in 1..(i - 1) : ~at(k)
        ELSE 0

\* s.substring(n)
Substring(s, n) == IF n >= Len(s) THEN <<>> ELSE SubSeq(s, n + 1, Len(s))

\* transcript.length < 2 for the transcript that triggerFeedbackPhase passed,
\* the entries in front of its placeholder
ShortTranscript ==
    LET isEx(i) == transcripts[i].role = "Examiner"
    IN  IF \E i \in 1..Len(transcripts) : isEx(i)
        THEN (CHOOSE i \in 1..Len(transcripts) :
                  isEx(i) /\ \A k \in 1..(i - 1) : ~isEx(k)) - 1 < 2
        ELSE Len(transcripts) < 2

\* One iteration of the for await loop of streamDetailedExaminerFeedback, for
\* a chunk of the response with the text text
StreamChunk(text) ==
    LET response == fullResponseText \o text
        tagAt == TagIndex(response, ScoreStartTag)
        feedbackPart == SubSeq(response, 1, tagAt - 1)
        newChunkForUI == Substring(feedbackPart, Len(feedbackSoFar))
        chunk == IF tagAt > 0 THEN newChunkForUI ELSE text
        new == IF chunk # <<>> THEN onChunkReceived(FeedbackLocals, chunk)
                               ELSE FeedbackLocals
    IN  /\ feedbackPc.streaming > 0
        /\ ~ShortTranscript
        /\ text # <<>>
        /\ Len(response) <= MaxFeedback
        /\ fullResponseText' = response
        /\ feedbackSoFar' = IF tagAt > 0 THEN feedbackPart ELSE feedbackSoFar \o text
        /\ fullFeedbackText' = new.full
        /\ textBuffer' = new.buf
        /\ speechSegments' = new.segs
        /\ transcripts' = IF chunk # <<>> THEN RewritePlaceholder(transcripts, new.full)
                                          ELSE transcripts
        /\ lastEvent' = "feedbackChunk"
        /\ UNCHANGED <<appVars, currentStudentTranscript, currentSpTranscript,
                       currentInput, currentOutput, unclearAudioWarning,
                       unclearTimers, lastTurn, dogVars, connVars, chanVars, pcVars,
                       pollVars, examState, examStateRef, status, audioQueue,
                       awaited, exFb>>

\* No ScoreData
Null == [null |-> TRUE]

\* The end tag of the score block, and the text that stands for a JSON object
ScoreEndTag == <<"E">>

\* match[1] of scoreRegex: the text between the first start tag and the
\* first end tag after it, empty when there is no match
ScoreBlock(response) ==
    LET tagAt == TagIndex(response, ScoreStartTag)
        rest == Substring(response, tagAt - 1 + Len(ScoreStartTag))
        endAt == TagIndex(rest, ScoreEndTag)
    IN  IF tagAt > 0 /\ endAt > 0 THEN SubSeq(rest, 1, endAt - 1) ELSE <<>>

\* streamDetailedExaminerFeedback returns (at once for a short transcript,
\* when the stream has ended, or from its catch block when failed), and
\* triggerFeedbackPhase runs up to its await of Promise.all(audioQueue).
\* parsed is what JSON.parse makes of the score block, Null when there is no
\* block or when it is not JSON
StreamReturn(failed, parsed) ==
    LET delivered == IF ShortTranscript
                     THEN onChunkReceived(FeedbackLocals, ShortFeedback)
                     ELSE IF failed
                          THEN onChunkReceived(FeedbackLocals, ErrorMsg)
                          ELSE FeedbackLocals
        feedbackText == IF ShortTranscript THEN ShortFeedback
                        ELSE IF failed THEN ErrorMsg ELSE Trim(feedbackSoFar)
        r == processTextForSpeech(delivered.buf, TRUE)
    IN  /\ feedbackPc.streaming > 0
        /\ ShortTranscript => ~failed
        /\ parsed # Null => /\ ~ShortTranscript /\ ~failed
                            /\ Trim(ScoreBlock(fullResponseText)) = <<"{">>
        /\ scoreData' = parsed
        /\ fullFeedbackText' = delivered.full
        /\ textBuffer' = r.rest
        /\ speechSegments' = delivered.segs \o playQueuedAudio(r.queued)
        /\ transcripts' = RewritePlaceholder(transcripts, feedbackText)
        /\ awaited' = {audioQueue[k] : k \in 1..Len(audioQueue)}
        /\ feedbackPc' = [streaming |-> feedbackPc.streaming - 1,
                          playing |-> feedbackPc.playing + 1]
        /\ lastEvent' = "feedbackReturn"
        /\ UNCHANGED <<appVars, currentStudentTranscript, currentSpTranscript,
                       currentInput, currentOutput, unclearAudioWarning,
                       unclearTimers, lastTurn, dogVars, connVars, chanVars, initPc,
                       startPc, feedbackStarts, isPatientSpeaking, pollVars,
                       examState, examStateRef, status, fullResponseText,
                       feedbackSoFar, audioQueue, lobbyVars, isScoreVerified,
                       isEditingScores, editedScoreData, audioVars>>

speechUnchanged ==
    UNCHANGED <<appVars, textVars, dogVars, connVars, chanVars, pcVars, pollVars,
                examState, examStateRef, status, fullResponseText, feedbackSoFar,
                fullFeedbackText, textBuffer, awaited, exFb>>

\* playQueuedAudio that puts a promise in audioQueue for a null audio as
\* well, one that no playback resolves
SpeechSynthesized_QueuesNull(i, ok) ==
    /\ i \in 1..Len(speechSegments)
    /\ speechSegments[i].st = "synth"
    /\ speechSegments' = [speechSegments EXCEPT ![i].st = IF ok THEN "queued" ELSE "null"]
    /\ audioQueue' = Append(audioQueue, i)
    /\ lastEvent' = "synthesized"
    /\ speechUnchanged

\* playQueuedAudio after its await of textToSpeech for segment i: audio (ok),
\* chained behind the last promise of audioQueue, or null
SpeechSynthesized(i, ok) ==
    /\ i \in 1..Len(speechSegments)
    /\ speechSegments[i].st = "synth"
    /\ speechSegments' = [speechSegments EXCEPT ![i].st = IF ok THEN "queued" ELSE "null"]
    /\ audioQueue' = IF ok THEN Append(audioQueue, i) ELSE audioQueue
    /\ lastEvent' = "synthesized"
    /\ speechUnchanged

\* The then callback of the k-th promise of audioQueue: the promise before it
\* has resolved, and playAudio starts the segment
SegmentStart(k) ==
    /\ k \in 1..Len(audioQueue)
    /\ speechSegments[audioQueue[k]].st = "queued"
    /\ k > 1 => speechSegments[audioQueue[k - 1]].st = "done"
    /\ speechSegments' = [speechSegments EXCEPT ![audioQueue[k]].st = "playing"]
    /\ lastEvent' = "segmentStart"
    /\ UNCHANGED audioQueue
    /\ speechUnchanged

\* onended of the source that plays the k-th promise of audioQueue
SegmentEnd(k) ==
    /\ k \in 1..Len(audioQueue)
    /\ speechSegments[audioQueue[k]].st = "playing"
    /\ speechSegments' = [speechSegments EXCEPT ![audioQueue[k]].st = "done"]
    /\ lastEvent' = "segmentEnd"
    /\ UNCHANGED audioQueue
    /\ speechUnchanged

\* triggerFeedbackPhase that goes on after the speech only with a score
AudioQueueDone_NeedsScore ==
    /\ feedbackPc.playing > 0
    /\ scoreData # Null
    /\ \A i \in awaited : speechSegments[i].st = "done"
    /\ feedbackPc' = [feedbackPc EXCEPT !.playing = @ - 1]
    /\ examState' = "q&a"
    /\ connectToExaminerQASession
    /\ pollTimer' = PollEffect("q&a", isExamBlocked, examState # "q&a")
    /\ lastEvent' = "feedbackAudioEnd"
    /\ UNCHANGED <<appVars, textVars, dogVars, connVars, patientCh, initPc,
                   startPc, feedbackStarts, isPatientSpeaking, analyses,
                   examStateRef, status, extVars>>

\* triggerFeedbackPhase after Promise.all(audioQueue), which waits for the
\* promises that were in audioQueue when it was called
AudioQueueDone ==
    /\ feedbackPc.playing > 0
    /\ \A i \in awaited : speechSegments[i].st = "done"
    /\ feedbackPc' = [feedbackPc EXCEPT !.playing = @ - 1]
    /\ examState' = "q&a"
    /\ connectToExaminerQASession
    /\ pollTimer' = PollEffect("q&a", isExamBlocked, examState # "q&a")
    /\ lastEvent' = "feedbackAudioEnd"
    /\ UNCHANGED <<appVars, textVars, dogVars, connVars, patientCh, initPc,
                   startPc, feedbackStarts, isPatientSpeaking, analyses,
                   examStateRef, status, extVars>>

----------------------------------------------------------------------------
\* Call: audio of the two channels.  The speaking indicators of the examiner
\* are display only and are left out.

\* The chunks of a channel that are in state st
ChunksIn(chunks, st) == {i \in 1..Len(chunks) : chunks[i].st = st}

\* onmessage of the examiner channel for a message that carries audio and
\* nothing else, up to its await of decodeAudioData
QaAudioMessage ==
    /\ qaCh \in {"open", "closing"}
    /\ Len(qaAudio) < MaxQaAudio
    /\ currentStudentTranscript' = <<>>
    /\ qaAudio' = Append(qaAudio, [st |-> "decoding"])
    /\ lastEvent' = "qaAudio"
    /\ UNCHANGED <<appVars, transcripts, currentSpTranscript, currentInput,
                   currentOutput, unclearAudioWarning, unclearTimers, lastTurn,
                   dogVars, connVars, chanVars, pcVars, pollVars, examState,
                   examStateRef, status, fbVars, lobbyVars, scoreVars,
                   outputTime, nextStartTimeRef, patientAudio>>

qaAudioUnchanged ==
    UNCHANGED <<appVars, textVars, dogVars, connVars, chanVars, pcVars, pollVars,
                examState, examStateRef, status, fbVars, lobbyVars, scoreVars,
                outputTime, nextStartTimeRef, patientAudio>>

\* onmessage of the examiner channel after decodeAudioData: source.start()
\* plays chunk i at once
QaAudioDecoded(i) ==
    /\ i \in ChunksIn(qaAudio, "decoding")
    /\ qaAudio' = [qaAudio EXCEPT ![i].st = "playing"]
    /\ lastEvent' = "qaAudioStart"
    /\ qaAudioUnchanged

\* The ended event of the source of chunk i of the examiner channel
QaAudioEnded(i) ==
    /\ i \in ChunksIn(qaAudio, "playing")
    /\ qaAudio' = [qaAudio EXCEPT ![i].st = "ended"]
    /\ lastEvent' = "qaAudioEnded"
    /\ qaAudioUnchanged

\* The audio hardware advances currentTime of the output audio context
OutputClockTick ==
    /\ initPc \notin {"unmounted", "media", "failed"}
    /\ outputTime < MaxOutputTime
    /\ outputTime' = outputTime + 1
    /\ lastEvent' = "outputClock"
    /\ UNCHANGED <<appVars, textVars, dogVars, connVars, chanVars, pcVars, pollVars,
                   examState, examStateRef, status, fbVars, lobbyVars, scoreVars,
                   nextStartTimeRef, patientAudio, qaAudio>>

\* Math.max
Max(a, b) == IF a > b THEN a ELSE b

\* onmessage of the patient channel for a message that carries audio of the
\* given duration and nothing else, up to its await of decodeAudioData
PatientAudioMessage(duration) ==
    /\ patientCh \in {"open", "closing"}
    /\ Len(patientAudio) < MaxPatientAudio
    /\ isPatientSpeaking' = TRUE
    /\ nextStartTimeRef' = Max(nextStartTimeRef, outputTime)
    /\ patientAudio' = Append(patientAudio,
                              [st |-> "decoding", duration |-> duration,
                               start |-> 0, calledAt |-> 0, order |-> 0])
    /\ lastEvent' = "patientAudio"
    /\ UNCHANGED <<appVars, textVars, dogVars, connVars, chanVars, initPc, startPc,
                   feedbackPc, feedbackStarts, pollVars, examState, examStateRef,
                   status, fbVars, lobbyVars, scoreVars, outputTime, qaAudio>>

\* onmessage of the patient channel after decodeAudioData, which may end for
\* a later chunk first: source.start(nextStartTimeRef.current) for chunk i,
\* and the cursor moves on by the chunk's duration
PatientAudioDecoded(i) ==
    /\ i \in ChunksIn(patientAudio, "decoding")
    /\ patientAudio' =
           [patientAudio EXCEPT ![i] =
               [st |-> "scheduled", duration |-> @.duration,
                start |-> nextStartTimeRef, calledAt |-> outputTime,
                order |-> 1 + Cardinality(ChunksIn(patientAudio, "scheduled")
                                          \cup ChunksIn(patientAudio, "ended"))]]
    /\ nextStartTimeRef' = nextStartTimeRef + patientAudio[i].duration
    /\ lastEvent' = "patientAudioStart"
    /\ UNCHANGED <<appVars, textVars, dogVars, connVars, chanVars, pcVars, pollVars,
                   examState, examStateRef, status, fbVars, lobbyVars, scoreVars,
                   outputTime, qaAudio>>

\* When a scheduled chunk begins to play: a start time that has passed when
\* start is called plays at once
PlayBegin(c) == Max(c.start, c.calledAt)
PlayEnd(c) == PlayBegin(c) + c.duration

\* The ended listener of the source of chunk i: the source leaves
\* audioSourcesRef, and the last one to leave clears isPatientSpeaking
PatientAudioEnded(i) ==
    /\ i \in ChunksIn(patientAudio, "scheduled")
    /\ outputTime >= PlayEnd(patientAudio[i])
    /\ patientAudio' = [patientAudio EXCEPT ![i].st = "ended"]
    /\ isPatientSpeaking' = IF ChunksIn(patientAudio, "scheduled") = {i}
                            THEN FALSE ELSE isPatientSpeaking
    /\ lastEvent' = "patientAudioEnded"
    /\ UNCHANGED <<appVars, textVars, dogVars, connVars, chanVars, initPc, startPc,
                   feedbackPc, feedbackStarts, pollVars, examState, examStateRef,
                   status, fbVars, lobbyVars, scoreVars, outputTime,
                   nextStartTimeRef, qaAudio>>

----------------------------------------------------------------------------
\* Call: the scorecard.  ScoreData holds the three category scores (their
\* justifications are never changed) and overallScore, which is counted in
\* thirtieths so that thirds and tenths are both exact.

Categories == {"rapport", "historyTaking", "communication"}

\* The mean of the three category scores
Mean(sd) == 10 * (sd.rapport + sd.historyTaking + sd.communication)

\* x rounded to one decimal place
Round1(x) == 3 * ((2 * x + 3) \div 6)

\* The score blocks of the backend: high scores with an overallScore that is
\* their rounded average, or 3.0
AIScores ==
    {sd \in [rapport : {4, 5}, historyTaking : {4, 5}, communication : {4, 5},
             overallScore : {90, 120, 129, 141, 150}] :
        sd.overallScore \in {Round1(Mean(sd)), 90}}

\* ScoreDisplay is rendered
ScorecardShown == examStarted /\ scoreData # Null /\ examState # "ended"

scoreUnchanged ==
    UNCHANGED <<appVars, textVars, dogVars, connVars, chanVars, pcVars, pollVars,
                examState, examStateRef, status, exScore>>

\* handleEditScores behind a button that stays after the verification
handleEditScores_AfterVerify ==
    /\ ScorecardShown
    /\ ~isEditingScores
    /\ editedScoreData' = scoreData
    /\ isEditingScores' = TRUE
    /\ lastEvent' = "editScores"
    /\ UNCHANGED <<scoreData, isScoreVerified>>
    /\ scoreUnchanged

\* Call.handleEditScores, behind the button Edit Scores
handleEditScores ==
    /\ ScorecardShown
    /\ ~isScoreVerified
    /\ ~isEditingScores
    /\ editedScoreData' = scoreData
    /\ isEditingScores' = TRUE
    /\ lastEvent' = "editScores"
    /\ UNCHANGED <<scoreData, isScoreVerified>>
    /\ scoreUnchanged

\* Call.handleCancelEditScores, behind the button Cancel
handleCancelEditScores ==
    /\ ScorecardShown
    /\ isEditingScores
    /\ editedScoreData' = Null
    /\ isEditingScores' = FALSE
    /\ lastEvent' = "cancelEdit"
    /\ UNCHANGED <<scoreData, isScoreVerified>>
    /\ scoreUnchanged

\* Call.handleSaveScores, behind the button Save Changes
handleSaveScores ==
    /\ ScorecardShown
    /\ isEditingScores
    /\ scoreData' = IF editedScoreData # Null THEN editedScoreData ELSE scoreData
    /\ isEditingScores' = FALSE
    /\ editedScoreData' = Null
    /\ lastEvent' = "saveScores"
    /\ UNCHANGED isScoreVerified
    /\ scoreUnchanged

\* handleScoreChange that writes the score into the object the draft was
\* copied from
handleScoreChange_InPlace(category, newScore) ==
    LET newData == [editedScoreData EXCEPT ![category] = newScore]
        written == IF editedScoreData = Null THEN Null
                   ELSE [newData EXCEPT !.overallScore = Mean(newData)]
    IN  /\ ScorecardShown
        /\ isEditingScores
        /\ editedScoreData' = written
        /\ scoreData' = written
        /\ lastEvent' = "scoreChange"
        /\ UNCHANGED <<isScoreVerified, isEditingScores>>
        /\ scoreUnchanged

\* Call.handleScoreChange, behind the stars of a category while editing
handleScoreChange(category, newScore) ==
    LET newData == [editedScoreData EXCEPT ![category] = newScore]
    IN  /\ ScorecardShown
        /\ isEditingScores
        /\ editedScoreData' =
               IF editedScoreData = Null THEN Null
               ELSE [newData EXCEPT !.overallScore = Mean(newData)]
        /\ lastEvent' = "scoreChange"
        /\ UNCHANGED <<scoreData, isScoreVerified, isEditingScores>>
        /\ scoreUnchanged

\* onVerify, behind the button Verify Score
VerifyScore ==
    /\ ScorecardShown
    /\ ~isScoreVerified
    /\ ~isEditingScores
    /\ isScoreVerified' = TRUE
    /\ lastEvent' = "verifyScore"
    /\ UNCHANGED <<scoreData, isEditingScores, editedScoreData>>
    /\ scoreUnchanged

----------------------------------------------------------------------------
\* Lobby: the camera check

\* The results of analyzeStudentFrame: its catch block gives the third
FrameResults ==
    {[isCheating |-> FALSE, reason |-> "All clear"],
     [isCheating |-> TRUE,  reason |-> "Possible use of a mobile phone detected."],
     [isCheating |-> FALSE, reason |-> "AI analysis failed. Check console for details."],
     [isCheating |-> FALSE, reason |-> "Student not present in the frame."],
     [isCheating |-> TRUE,  reason |-> "All clear"]}

IsClean(result) == ~result.isCheating /\ result.reason = "All clear"

\* The latest three results, the newest last
Latest(rs) == IF Len(rs) > 3 THEN Tail(rs) ELSE rs

\* Lobby.startSetup up to its await of getUserMedia; the button stays until
\* isSetupActive is set
startSetup ==
    /\ ~examStarted
    /\ ~isSetupActive
    /\ setupsPending < MaxSetups
    /\ setupsPending' = setupsPending + 1
    /\ lastEvent' = "startSetup"
    /\ UNCHANGED <<isSetupActive, proctoringPassed, clearChecks, proctoringResult,
                   proctoringIntervalRef, leakedIntervals, lobbyAnalyses,
                   received, micVars, exLobby, appVars, textVars, dogVars,
                   connVars, chanVars, pcVars, pollVars, examState,
                   examStateRef, status>>

\* Lobby.startSetup after getUserMedia: the interval is started and its id
\* replaces the one in proctoringIntervalRef, or the catch block reports
SetupResolve(ok) ==
    /\ ~examStarted
    /\ setupsPending > 0
    /\ setupsPending' = setupsPending - 1
    /\ IF ok
       THEN /\ isSetupActive' = TRUE
            /\ proctoringResult' = [isCheating |-> FALSE,
                                    reason |-> "Starting proctoring..."]
            /\ proctoringIntervalRef' = "running"
            /\ leakedIntervals' = IF proctoringIntervalRef = "running"
                                  THEN leakedIntervals + 1 ELSE leakedIntervals
       ELSE /\ proctoringResult' =
                   [isCheating |-> TRUE,
                    reason |-> "Could not access camera. Please grant permission."]
            /\ UNCHANGED <<isSetupActive, proctoringIntervalRef, leakedIntervals>>
    /\ lastEvent' = "setupResolve"
    /\ UNCHANGED <<proctoringPassed, clearChecks, lobbyAnalyses, received,
                   micVars, exLobby, appVars, textVars, dogVars, connVars,
                   chanVars, pcVars, pollVars, examState, examStateRef, status>>

\* Lobby.runProctoringCheck, called by an interval, up to its await of
\* analyzeStudentFrame; nothing happens while the video is not ready
LobbyPoll(ready) ==
    /\ ~examStarted
    /\ proctoringIntervalRef = "running" \/ leakedIntervals > 0
    /\ ready => lobbyAnalyses < MaxAnalyses
    /\ lobbyAnalyses' = IF ready THEN lobbyAnalyses + 1 ELSE lobbyAnalyses
    /\ lastEvent' = "lobbyPoll"
    /\ UNCHANGED <<isSetupActive, proctoringPassed, clearChecks, proctoringResult,
                   setupsPending, proctoringIntervalRef, leakedIntervals,
                   received, micVars, exLobby, appVars, textVars, dogVars,
                   connVars, chanVars, pcVars, pollVars, examState,
                   examStateRef, status>>

\* runProctoringCheck that leaves the count alone on a result that is not clean
LobbyAnalysisReturn_NoReset(result) ==
    LET newCount == clearChecks + 1
    IN  /\ ~examStarted
        /\ lobbyAnalyses > 0
        /\ IsClean(result) => newCount <= MaxClearChecks
        /\ lobbyAnalyses' = lobbyAnalyses - 1
        /\ proctoringResult' = result
        /\ received' = Latest(Append(received, IsClean(result)))
        /\ IF IsClean(result)
           THEN /\ clearChecks' = newCount
                /\ IF newCount >= ClearThreshold
                   THEN /\ proctoringPassed' = TRUE
                        /\ proctoringIntervalRef' =
                               IF proctoringIntervalRef = "null" THEN "null"
                               ELSE "cleared"
                   ELSE UNCHANGED <<proctoringPassed, proctoringIntervalRef>>
           ELSE UNCHANGED <<clearChecks, proctoringPassed, proctoringIntervalRef>>
        /\ lastEvent' = "lobbyResult"
        /\ UNCHANGED <<isSetupActive, setupsPending, leakedIntervals, micVars,
                       exLobby, appVars, textVars, dogVars, connVars, chanVars,
                       pcVars, pollVars, examState, examStateRef, status>>

\* Lobby.runProctoringCheck after its await: the result of one analysis
LobbyAnalysisReturn(result) ==
    LET newCount == clearChecks + 1
    IN  /\ ~examStarted
        /\ lobbyAnalyses > 0
        /\ IsClean(result) => newCount <= MaxClearChecks
        /\ lobbyAnalyses' = lobbyAnalyses - 1
        /\ proctoringResult' = result
        /\ received' = Latest(Append(received, IsClean(result)))
        /\ IF IsClean(result)
           THEN /\ clearChecks' = newCount
                /\ IF newCount >= ClearThreshold
                   THEN /\ proctoringPassed' = TRUE
                        /\ proctoringIntervalRef' =
                               IF proctoringIntervalRef = "null" THEN "null"
                               ELSE "cleared"
                   ELSE UNCHANGED <<proctoringPassed, proctoringIntervalRef>>
           ELSE /\ clearChecks' = 0
                /\ UNCHANGED <<proctoringPassed, proctoringIntervalRef>>
        /\ lastEvent' = "lobbyResult"
        /\ UNCHANGED <<isSetupActive, setupsPending, leakedIntervals, micVars,
                       exLobby, appVars, textVars, dogVars, connVars, chanVars,
                       pcVars, pollVars, examState, examStateRef, status>>

----------------------------------------------------------------------------
\* Lobby: the microphone check

micUnchanged ==
    UNCHANGED <<camVars, exLobby, appVars, textVars, dogVars, connVars, chanVars,
                pcVars, pollVars, examState, examStateRef, status>>

\* renderActionArea shows the microphone check
MicCheckShown == ~examStarted /\ isSetupActive /\ proctoringPassed

\* handleStartMicCheck that keeps the transcript of the attempt before
handleStartMicCheck_NoReset ==
    /\ MicCheckShown
    /\ micCheckState \in {"idle", "error"}
    /\ Len(micSessions) < MaxMicAttempts
    /\ micCheckState' = "starting"
    /\ micSessions' = Append(micSessions, "pending")
    /\ heardThisAttempt' = FALSE
    /\ lastEvent' = "startMicCheck"
    /\ UNCHANGED <<micTranscript, micSessionRef>>
    /\ micUnchanged

\* Lobby.handleStartMicCheck (Start Mic Check, Retry Mic Check) up to its
\* await of getUserMedia
handleStartMicCheck ==
    /\ MicCheckShown
    /\ micCheckState \in {"idle", "error"}
    /\ Len(micSessions) < MaxMicAttempts
    /\ micCheckState' = "starting"
    /\ micTranscript' = <<>>
    /\ micSessions' = Append(micSessions, "pending")
    /\ heardThisAttempt' = FALSE
    /\ lastEvent' = "startMicCheck"
    /\ UNCHANGED micSessionRef
    /\ micUnchanged

\* handleStartMicCheck of attempt i after getUserMedia: the session is
\* requested and kept in micSessionPromiseRef, or the catch block reports
MicMediaResolve(i, ok) ==
    /\ ~examStarted
    /\ i \in 1..Len(micSessions)
    /\ micSessions[i] = "pending"
    /\ IF ok
       THEN /\ micSessions' = [micSessions EXCEPT ![i] = "connecting"]
            /\ micSessionRef' = i
            /\ UNCHANGED micCheckState
       ELSE /\ micSessions' = [micSessions EXCEPT ![i] = "failed"]
            /\ micCheckState' = "error"
            /\ UNCHANGED micSessionRef
    /\ lastEvent' = "micMedia"
    /\ UNCHANGED <<micTranscript, heardThisAttempt>>
    /\ micUnchanged

\* onopen of the session of attempt i
MicOpen(i) ==
    /\ ~examStarted
    /\ i \in 1..Len(micSessions)
    /\ micSessions[i] = "connecting"
    /\ micSessions' = [micSessions EXCEPT ![i] = "open"]
    /\ micCheckState' = "checking"
    /\ lastEvent' = "micOpen"
    /\ UNCHANGED <<micTranscript, micSessionRef, heardThisAttempt>>
    /\ micUnchanged

\* onmessage of the session of attempt i with the input transcription newText
\* (none or empty: nothing is done)
MicMessage(i, newText) ==
    LET text == Trim(micTranscript \o <<" ">> \o newText)
    IN  /\ ~examStarted
        /\ i \in 1..Len(micSessions)
        /\ micSessions[i] = "open"
        /\ Len(text) <= MaxText
        /\ micTranscript' = IF newText # <<>> THEN text ELSE micTranscript
        /\ heardThisAttempt' = (heardThisAttempt \/ newText # <<>>)
        /\ lastEvent' = "micMessage"
        /\ UNCHANGED <<micCheckState, micSessions, micSessionRef>>
        /\ micUnchanged

\* onerror of the session of attempt i
MicError(i) ==
    /\ ~examStarted
    /\ i \in 1..Len(micSessions)
    /\ micSessions[i] \in {"connecting", "open"}
    /\ micSessions' = [micSessions EXCEPT ![i] = "errored"]
    /\ micCheckState' = "error"
    /\ lastEvent' = "micError"
    /\ UNCHANGED <<micTranscript, micSessionRef, heardThisAttempt>>
    /\ micUnchanged

\* onclose of the session of attempt i; its micCheckState is the one of the
\* render in which handleStartMicCheck was called, never 'passed'
MicClose(i) ==
    /\ ~examStarted
    /\ i \in 1..Len(micSessions)
    /\ micSessions[i] \in {"open", "errored"}
    /\ micSessions' = [micSessions EXCEPT ![i] = "closed"]
    /\ micCheckState' = "idle"
    /\ lastEvent' = "micClose"
    /\ UNCHANGED <<micTranscript, micSessionRef, heardThisAttempt>>
    /\ micUnchanged

\* Lobby.stopMicCheck: the session in micSessionPromiseRef is closed once it
\* is there
stopMicCheck(sessions) ==
    IF micSessionRef > 0 /\ sessions[micSessionRef] \in {"connecting", "open"}
    THEN [sessions EXCEPT ![micSessionRef] = "closing"]
    ELSE sessions

\* Lobby.handleConfirmMic, the button shown while the check is starting or
\* checking and enabled by a transcript; App mounts Call in place of Lobby,
\* whose cleanup clears the interval in proctoringIntervalRef
handleConfirmMic ==
    /\ MicCheckShown
    /\ micCheckState \in {"starting", "checking"}
    /\ micTranscript # <<>>
    /\ micCheckState' = "passed"
    /\ micSessions' = stopMicCheck(micSessions)
    /\ proctoringIntervalRef' = IF proctoringIntervalRef = "null" THEN "null"
                                ELSE "cleared"
    /\ mountCall
    /\ UNCHANGED <<isSetupActive, proctoringPassed, clearChecks, proctoringResult,
                   setupsPending, leakedIntervals, lobbyAnalyses, received,
                   micTranscript, micSessionRef, heardThisAttempt, exLobby>>

----------------------------------------------------------------------------
\* Time

AllTimers == {reconnectTimer, pollTimer} \cup silenceTimers \cup warningTimers
                 \cup hideTimers \cup unclearTimers

Later(t, d) == IF t = NoTimer THEN NoTimer ELSE t - d

\* d milliseconds pass; no pending timer is overrun, and a render with its
\* effects takes no time
Tick(d) ==
    /\ d > 0
    /\ examStateRef = examState
    /\ Pending(AllTimers) # {}
    /\ \A t \in Pending(AllTimers) : d <= t
    /\ silenceTimers' = {t - d : t \in silenceTimers}
    /\ warningTimers' = {t - d : t \in warningTimers}
    /\ silenceTimerRef' = Later(silenceTimerRef, d)
    /\ warningTimerRef' = Later(warningTimerRef, d)
    /\ reconnectTimer' = Later(reconnectTimer, d)
    /\ pollTimer' = Later(pollTimer, d)
    /\ hideTimers' = {t - d : t \in hideTimers}
    /\ unclearTimers' = {t - d : t \in unclearTimers}
    /\ sinceArm' = IF silenceTimers # {} \/ warningTimers # {}
                   THEN sinceArm + d ELSE sinceArm
    /\ sinceClose' = IF reconnectTimer # NoTimer THEN sinceClose + d ELSE sinceClose
    /\ lastEvent' = "tick"
    /\ UNCHANGED <<examStarted, fullscreenWarnings, proctoringWarnings,
                   isExamBlocked, warningMessage, transcripts,
                   currentStudentTranscript, currentSpTranscript, currentInput,
                   currentOutput, unclearAudioWarning, lastTurn,
                   silenceWarningVisible,
                   reconnectionAttempt, lastReconnect, attemptsMade, chanVars,
                   pcVars, analyses, examState, examStateRef, status, extVars>>

\* The time to the next deadline
NextDeadline == {d \in Pending(AllTimers) : \A t \in Pending(AllTimers) : d <= t}

----------------------------------------------------------------------------
Init ==
    /\ examStarted = FALSE
    /\ fullscreenWarnings = 0
    /\ proctoringWarnings = 0
    /\ isExamBlocked = FALSE
    /\ warningMessage = NoMessage
    /\ hideTimers = {}
    /\ examState = "initializing"
    /\ examStateRef = "initializing"
    /\ status = "Initializing..."
    /\ transcripts = <<>>
    /\ currentStudentTranscript = <<>>
    /\ currentSpTranscript = <<>>
    /\ silenceWarningVisible = FALSE
    /\ unclearAudioWarning = FALSE
    /\ isPatientSpeaking = FALSE
    /\ silenceTimerRef = NoTimer
    /\ warningTimerRef = NoTimer
    /\ silenceTimers = {}
    /\ warningTimers = {}
    /\ unclearTimers = {}
    /\ reconnectionAttempt = 0
    /\ reconnectTimer = NoTimer
    /\ sessionPromiseRef = "none"
    /\ initPc = "unmounted"
    /\ startPc = "idle"
    /\ feedbackPc = [streaming |-> 0, playing |-> 0]
    /\ patientCh = "none"
    /\ qaCh = "none"
    /\ currentInput = <<>>
    /\ currentOutput = <<>>
    /\ pollTimer = NoTimer
    /\ analyses = <<>>
    /\ sinceArm = 0
    /\ sinceClose = 0
    /\ lastReconnect = [n |-> 0, delay |-> 0]
    /\ attemptsMade = 0
    /\ feedbackStarts = 0
    /\ lastEvent = "none"
    /\ lastTurn = [input |-> <<>>, output |-> <<>>]
    /\ fullResponseText = <<>>
    /\ feedbackSoFar = <<>>
    /\ fullFeedbackText = <<>>
    /\ textBuffer = <<>>
    /\ audioQueue = <<>>
    /\ speechSegments = <<>>
    /\ awaited = {}
    /\ isSetupActive = FALSE
    /\ proctoringPassed = FALSE
    /\ clearChecks = 0
    /\ proctoringResult = [isCheating |-> FALSE, reason |-> "Initializing..."]
    /\ setupsPending = 0
    /\ proctoringIntervalRef = "null"
    /\ leakedIntervals = 0
    /\ lobbyAnalyses = 0
    /\ received = <<>>
    /\ micCheckState = "idle"
    /\ micTranscript = <<>>
    /\ micSessions = <<>>
    /\ micSessionRef = 0
    /\ heardThisAttempt = FALSE
    /\ scoreData = Null
    /\ isScoreVerified = FALSE
    /\ isEditingScores = FALSE
    /\ editedScoreData = Null
    /\ outputTime = 0
    /\ nextStartTimeRef = 0
    /\ patientAudio = <<>>
    /\ qaAudio = <<>>

\* The session from the lobby's start to its end: the phases, the watchdog
\* and both channels, with blocks caused by fullscreen exits, turns that are
\* silent or have one-letter transcriptions, and a camera that is not ready
\* when the poller ticks
Next ==
    \/ onStartExam
    \/ handleFullscreenChange
    \/ \E ok \in BOOLEAN : InitMedia(ok)
    \/ \E ok \in BOOLEAN : InitGreeted(ok)
    \/ handleStartExam
    \/ \E hasAudio \in BOOLEAN : StartGreeting(hasAudio)
    \/ \E ok \in BOOLEAN : StartPlayback(ok)
    \/ WarningTimerFire
    \/ SilenceTimerFire
    \/ SyncExamStateRef
    \/ PatientOpen
    \/ PatientClose(FALSE)
    \/ ReconnectTimerFire
    \/ \E w \in {<<>>, <<"a">>} : PatientMessage(w, w, TRUE)
    \/ FeedbackStreamEnd
    \/ FeedbackAudioEnd
    \/ QaOpen
    \/ QaClose
    \/ EndExamClick
    \/ PollTimerFire(FALSE)
    \/ HideTimerFire
    \/ \E d \in NextDeadline : Tick(d)

Spec == Init /\ [][Next]_vars

\* The session until its end with silent turns (a turnComplete without
\* transcription): the warning accumulator and the poller
NextWarnings ==
    \/ onStartExam
    \/ handleFullscreenChange
    \/ InitMedia(TRUE)
    \/ InitGreeted(TRUE)
    \/ PatientOpen
    \/ handleStartExam
    \/ StartGreeting(FALSE)
    \/ PatientMessage(<<>>, <<>>, TRUE)
    \/ WarningTimerFire
    \/ SilenceTimerFire
    \/ SyncExamStateRef
    \/ \E videoReady \in BOOLEAN : PollTimerFire(videoReady)
    \/ \E i \in 1..MaxAnalyses, r \in {"cheating", "clear", "failed"} : AnalysisReturn(i, r)
    \/ HideTimerFire
    \/ \E d \in NextDeadline : Tick(d)

SpecWarnings == Init /\ [][NextWarnings]_vars

\* The session up to the feedback phase with a patient channel that fails:
\* errors, closes by the backend at any moment, connection attempts that open
\* or fail, under the watchdog and with no turn completing
NextReconnect ==
    \/ onStartExam
    \/ InitMedia(TRUE)
    \/ InitGreeted(TRUE)
    \/ handleStartExam
    \/ StartGreeting(FALSE)
    \/ WarningTimerFire
    \/ SilenceTimerFire
    \/ SyncExamStateRef
    \/ PatientOpen
    \/ PatientError
    \/ \E unexpected \in BOOLEAN : PatientClose(unexpected)
    \/ ReconnectTimerFire
    \/ PollTimerFire(FALSE)
    \/ \E d \in NextDeadline : Tick(d)

SpecReconnect == Init /\ [][NextReconnect]_vars

\* The pieces of transcription a message of the patient channel carries
Deltas == {<<>>, <<" ">>, <<"a">>}

\* The conversation with the patient: messages with pieces of transcription
\* of the student and of the patient, with and without turnComplete, in less
\* time than the watchdog, the poller or a notice takes to its next deadline
\* and while the synthesis of the patient's greeting is still under way
NextTurn ==
    \/ onStartExam
    \/ InitMedia(TRUE)
    \/ InitGreeted(TRUE)
    \/ PatientOpen
    \/ handleStartExam
    \/ SyncExamStateRef
    \/ \E inp, out \in Deltas, tc \in BOOLEAN : PatientMessage(inp, out, tc)

SpecTurn == Init /\ [][NextTurn]_vars

\* The session up to the feedback phase, with one turn of the conversation or
\* none and the silence that follows
ToFeedback ==
    \/ onStartExam
    \/ InitMedia(TRUE)
    \/ InitGreeted(TRUE)
    \/ PatientOpen
    \/ handleStartExam
    \/ SyncExamStateRef
    \/ StartGreeting(FALSE)
    \/ PatientMessage(<<"a">>, <<"a">>, TRUE)
    \/ WarningTimerFire
    \/ SilenceTimerFire
    \/ PollTimerFire(FALSE)
    \/ \E d \in NextDeadline : Tick(d)

\* The chunks of feedback text: up to three characters of letters, blanks,
\* full stops and newlines
TextChunks ==
    LET c == {"a", " ", ".", "\n"}
    IN  {<<x>> : x \in c} \cup {<<x, y>> : x, y \in c}
        \cup {<<x, y, z>> : x, y, z \in c}

\* The feedback stream delivered in chunks of every size and content, no
\* synthesis request returning yet
NextChunking ==
    \/ ToFeedback
    \/ \E text \in TextChunks : StreamChunk(text)
    \/ StreamReturn(FALSE, Null)

SpecChunking == Init /\ [][NextChunking]_vars

\* The chunks of a feedback text of short sentences
SpeechChunks == {<<"a", ".">>, <<"a">>}

\* The feedback phase with its speech: synthesis requests return in any
\* order, with audio or without, and the segments play
NextFeedback ==
    \/ ToFeedback
    \/ \E text \in SpeechChunks : StreamChunk(text)
    \/ \E failed \in BOOLEAN : StreamReturn(failed, Null)
    \/ \E i \in 1..MaxFeedback, ok \in BOOLEAN : SpeechSynthesized(i, ok)
    \/ \E k \in 1..MaxFeedback : SegmentStart(k)
    \/ \E k \in 1..MaxFeedback : SegmentEnd(k)
    \/ AudioQueueDone

SpecFeedback == Init /\ [][NextFeedback]_vars

\* The lobby up to the start of the exam
NextLobby ==
    \/ startSetup
    \/ \E ok \in BOOLEAN : SetupResolve(ok)
    \/ \E ready \in BOOLEAN : LobbyPoll(ready)
    \/ \E result \in FrameResults : LobbyAnalysisReturn(result)
    \/ handleStartMicCheck
    \/ \E i \in 1..MaxMicAttempts, ok \in BOOLEAN : MicMediaResolve(i, ok)
    \/ \E i \in 1..MaxMicAttempts : MicOpen(i)
    \/ \E i \in 1..MaxMicAttempts, newText \in Deltas : MicMessage(i, newText)
    \/ \E i \in 1..MaxMicAttempts : MicError(i)
    \/ \E i \in 1..MaxMicAttempts : MicClose(i)
    \/ handleConfirmMic

SpecLobby == Init /\ [][NextLobby]_vars

\* The chunks of a response with a score block: a sentence, and the block
BlockChunks == {<<"a", ".">>, ScoreStartTag \o <<"{">> \o ScoreEndTag}

\* The session up to the feedback with a score block, and the scorecard
NextScorecard ==
    \/ onStartExam
    \/ InitMedia(TRUE)
    \/ InitGreeted(TRUE)
    \/ PatientOpen
    \/ handleStartExam
    \/ SyncExamStateRef
    \/ PatientMessage(<<"a">>, <<"a">>, TRUE)
    \/ WarningTimerFire
    \/ SilenceTimerFire
    \/ PollTimerFire(FALSE)
    \/ \E d \in NextDeadline : Tick(d)
    \/ \E text \in BlockChunks : StreamChunk(text)
    \/ \E parsed \in AIScores \cup {Null} : StreamReturn(FALSE, parsed)
    \/ handleEditScores
    \/ handleCancelEditScores
    \/ handleSaveScores
    \/ \E category \in Categories, newScore \in 1..StarCount :
           handleScoreChange(category, newScore)
    \/ VerifyScore

SpecScorecard == Init /\ [][NextScorecard]_vars

\* The chunks of a response with letters and the letters of the start tag
TagChunks ==
    LET c == {"a", "S", "J"}
    IN  {<<x>> : x \in c} \cup {<<x, y>> : x, y \in c}

\* The feedback stream with the start tag anywhere in its chunks
NextStream ==
    \/ ToFeedback
    \/ \E text \in TagChunks : StreamChunk(text)
    \/ StreamReturn(FALSE, Null)

SpecStream == Init /\ [][NextStream]_vars

\* A completed turn of the conversation on the open patient channel
PatientTurn == patientCh = "open" /\ PatientMessage(<<"a">>, <<"a">>, TRUE)

\* The chunks of a response whose score block is there, is not JSON, or has
\* no end
ParseChunks ==
    {<<"a", ".">>, ScoreStartTag \o <<"{">> \o ScoreEndTag,
     ScoreStartTag \o <<"a">> \o ScoreEndTag, ScoreStartTag \o <<"{">>}

\* The feedback phase from the silence to q&a, with and without a score
NextParse ==
    \/ onStartExam
    \/ InitMedia(TRUE)
    \/ InitGreeted(TRUE)
    \/ PatientOpen
    \/ handleStartExam
    \/ SyncExamStateRef
    \/ StartGreeting(FALSE)
    \/ PatientTurn
    \/ WarningTimerFire
    \/ SilenceTimerFire
    \/ PollTimerFire(FALSE)
    \/ \E d \in NextDeadline : Tick(d)
    \/ \E text \in ParseChunks : StreamChunk(text)
    \/ \E parsed \in AIScores \cup {Null} : StreamReturn(FALSE, parsed)
    \/ \E i \in 1..MaxFeedback, ok \in BOOLEAN : SpeechSynthesized(i, ok)
    \/ \E k \in 1..MaxFeedback : SegmentStart(k)
    \/ \E k \in 1..MaxFeedback : SegmentEnd(k)
    \/ AudioQueueDone

\* Playback that has been chained starts and ends, and a resolved
\* Promise.all lets triggerFeedbackPhase go on
SpecParse ==
    /\ Init /\ [][NextParse]_vars
    /\ WF_vars(\E k \in 1..MaxFeedback : SegmentStart(k))
    /\ WF_vars(\E k \in 1..MaxFeedback : SegmentEnd(k))
    /\ WF_vars(AudioQueueDone)

----------------------------------------------------------------------------
\* C1: in every state isExamBlocked is true exactly when the fullscreen
\* counter is at least 2 or the sum of the two counters is at least 5, and a
\* step never takes isExamBlocked from true to false.
C1_BlockedIffLimits ==
    [][/\ isExamBlocked' <=> (fullscreenWarnings' >= FullscreenLimit
                              \/ fullscreenWarnings' + proctoringWarnings' >= WarningLimit)
       /\ isExamBlocked => isExamBlocked']_vars

\* C2: once isExamBlocked is true no step changes fullscreenWarnings or
\* proctoringWarnings, a verdict of an analysis started before the block
\* included.
C2_CountersFrozen ==
    [][isExamBlocked => /\ fullscreenWarnings' = fullscreenWarnings
                        /\ proctoringWarnings' = proctoringWarnings]_vars

\* C3: whenever isExamBlocked is true the phase is ended, whatever event came
\* after the block (the completion of an initialization or of a feedback
\* generation that was in flight included).
C3_BlockedStaysEnded == isExamBlocked => examState = "ended"

PhaseIndex(ph) == CHOOSE i \in 1..Len(Phases) : Phases[i] = ph

\* C4: every step leaves the phase as it is, moves it to the next phase of
\* initializing, ready, in-progress, feedback, q&a, ended, or moves it to
\* ended; no step leaves ended.
C4_PhaseForward ==
    [][\/ examState' = examState
       \/ examState' = "ended"
       \/ examState # "ended" /\ PhaseIndex(examState') = PhaseIndex(examState) + 1]_vars

ExaminerEntries == Len(SelectSeq(transcripts, LAMBDA e : e.role = "Examiner"))

\* C5: a step taken in a phase other than in-progress starts no feedback
\* generation (no placeholder entry, no stream, no change of phase to
\* feedback), and in a session at most one feedback stream is started and at
\* most one Examiner placeholder is appended.
C5_FeedbackOnce ==
    [][/\ examState # "in-progress" =>
              /\ feedbackStarts' = feedbackStarts
              /\ Len(transcripts') = Len(transcripts) \/ lastEvent' = "turnComplete"
              /\ examState' = "feedback" => examState = "feedback"
       /\ feedbackStarts' <= 1
       /\ ExaminerEntries' = feedbackStarts'
       /\ lastEvent' = "silenceTimerLate" =>
              UNCHANGED <<examState, transcripts, feedbackPc, status, chanVars>>]_vars

\* A silence timer armed by a turn that completed after the phase had left
\* in-progress has expired, and triggerFeedbackPhase has returned at its check
C5_Witness == lastEvent = "silenceTimerLate" /\ feedbackStarts = 1

\* C6: when a turn completes in phase in-progress while the watchdog is armed
\* and its 15 s warning timer has not fired yet, the two pending timers are
\* cancelled (the only timers pending afterwards are the fresh pair), the
\* inactivity indicator is not visible, the phase stays in-progress, and a
\* fresh pair of 15 s and 20 s is armed from that moment.
C6_TurnRearmsWatchdog ==
    [][(/\ lastEvent' \in {"turnComplete", "turnCompleteArmed"}
        /\ examState = "in-progress"
        /\ warningTimerRef # NoTimer
        /\ silenceTimerRef # NoTimer)
       => /\ examState' = "in-progress"
          /\ ~silenceWarningVisible'
          /\ warningTimers' = {WarnDelay}
          /\ silenceTimers' = {SilenceDelay}
          /\ warningTimerRef' = WarnDelay
          /\ silenceTimerRef' = SilenceDelay
          /\ sinceArm' = 0]_vars

\* A turn has just completed in phase in-progress with the watchdog armed, and
\* a fresh pair is pending
C6_Witness ==
    /\ lastEvent = "turnCompleteArmed"
    /\ examState = "in-progress"
    /\ warningTimers = {WarnDelay}
    /\ silenceTimers = {SilenceDelay}

\* C7: when the watchdog is armed in phase in-progress and no turn completes,
\* the inactivity indicator becomes visible exactly 15 s after the arming and
\* the phase changes from in-progress to feedback exactly 20 s after the same
\* arming; at the forced transition the indicator is visible before the step
\* and not visible after it.
C7_WatchdogDeadlines ==
    [][/\ (examState = "in-progress" /\ ~silenceWarningVisible
            /\ silenceWarningVisible') => sinceArm = WarnDelay
       /\ (examState = "in-progress" /\ examState' = "feedback")
          => /\ sinceArm = SilenceDelay
             /\ silenceWarningVisible
             /\ ~silenceWarningVisible'
       /\ (examState' = "in-progress" /\ silenceTimerRef' # NoTimer)
          => /\ silenceTimerRef' = SilenceDelay - sinceArm'
             /\ silenceTimers' = {silenceTimerRef'}
             /\ sinceArm' < WarnDelay
                => (~silenceWarningVisible' /\ warningTimers' = {WarnDelay - sinceArm'})
             /\ sinceArm' > WarnDelay => silenceWarningVisible']_vars

\* The watchdog has just forced the phase from in-progress to feedback
C7_Witness ==
    /\ lastEvent = "silenceTimer"
    /\ examState = "feedback"
    /\ feedbackStarts = 1
    /\ ~silenceWarningVisible

\* C8: the N-th reconnection attempt since the last successful open is started
\* 2000 x N ms after the close that scheduled it.
C8_BackoffTimesAttempt ==
    lastReconnect.n > 0 => lastReconnect.delay = ReconnectBase * lastReconnect.n

\* C9 as stated: at most 5 reconnection attempts are made in a session.
C9_AtMostFiveAttempts == attemptsMade <= MaxReconnect

FailedStatus == "Connection failed permanently. Please refresh."

\* C9, amended: at most 5 reconnection attempts are made since the last
\* successful open of the patient channel (every open resets the count); a
\* reconnect is scheduled only while fewer than 5 were made; and when the
\* channel closes with 5 attempts made and none of them opened, while
\* examStateRef is in-progress, the terminal failure status is shown and no
\* reconnect is scheduled.
C9_AtMostFiveSinceOpen ==
    [][/\ reconnectionAttempt' <= MaxReconnect
       /\ (reconnectTimer = NoTimer /\ reconnectTimer' # NoTimer)
          => reconnectionAttempt < MaxReconnect
       /\ (/\ patientCh # "closed"
           /\ patientCh' = "closed"
           /\ examStateRef = "in-progress"
           /\ reconnectionAttempt = MaxReconnect)
          => (status' = FailedStatus /\ reconnectTimer' = NoTimer)]_vars

\* The channel of the 5th attempt has closed without opening
C9_Witness ==
    /\ lastEvent = "patientCloseFinal"
    /\ reconnectionAttempt = MaxReconnect
    /\ status = FailedStatus
    /\ reconnectTimer = NoTimer

\* t is s without its leading and trailing blanks
IsTrimOf(t, s) ==
    \E i, j \in 0..Len(s) :
        /\ i + j <= Len(s)
        /\ \A k \in 1..i : s[k] = " "
        /\ \A k \in (Len(s) - j + 1)..Len(s) : s[k] = " "
        /\ t = SubSeq(s, i + 1, Len(s) - j)
        /\ t # <<>> => (t[1] # " " /\ t[Len(t)] # " ")

\* The contiguous pieces of s
Pieces(s) == {SubSeq(s, a, b) : a \in 1..Len(s) + 1, b \in 0..Len(s)}

TurnCompleteEvents == {"turnComplete", "turnCompleteArmed"}

\* C10: a step that completes a turn, whose transcribed text is lastTurn'
\* (the buffer before the step extended by the message's pieces), appends to
\* the transcript exactly the trimmed student text as a Student entry when it
\* is not empty, then the trimmed patient text as an SP entry when it is not
\* empty, and leaves both partial buffers empty; a message that does not
\* complete the turn leaves the transcript as it was.
C10_TurnTranscript ==
    [][/\ lastEvent' \in TurnCompleteEvents
          => \E st \in Pieces(lastTurn'.input), sp \in Pieces(lastTurn'.output) :
               LET n == Len(transcripts)
                   added == SubSeq(transcripts', n + 1, Len(transcripts'))
               IN  /\ IsTrimOf(st, lastTurn'.input)
                   /\ IsTrimOf(sp, lastTurn'.output)
                   /\ SubSeq(lastTurn'.input, 1, Len(currentInput)) = currentInput
                   /\ SubSeq(lastTurn'.output, 1, Len(currentOutput)) = currentOutput
                   /\ Len(transcripts') >= n
                   /\ SubSeq(transcripts', 1, n) = transcripts
                   /\ Len(added) = (IF st # <<>> THEN 1 ELSE 0)
                                    + (IF sp # <<>> THEN 1 ELSE 0)
                   /\ st # <<>> => added[1] = [role |-> "Student", text |-> st]
                   /\ sp # <<>> => added[Len(added)] = [role |-> "SP", text |-> sp]
                   /\ currentInput' = <<>>
                   /\ currentOutput' = <<>>
                   /\ currentStudentTranscript' = <<>>
                   /\ currentSpTranscript' = <<>>
       /\ lastEvent' = "transcription" => transcripts' = transcripts]_vars

\* A turn with student text and patient text has just completed in phase
\* in-progress: the transcript holds its Student entry, then its SP entry
C10_Witness ==
    /\ lastEvent \in TurnCompleteEvents
    /\ Len(transcripts) = 2
    /\ transcripts[1].role = "Student"
    /\ transcripts[2].role = "SP"
    /\ examState = "in-progress"
    /\ lastTurn.input = transcripts[1].text
    /\ lastTurn.output = transcripts[2].text
    /\ currentInput = <<>>
    /\ currentOutput = <<>>

\* The positions of T at which a fragment ends: the terminators, and the end
\* of the text once the stream has ended
FragmentEnds(T, ended) ==
    {i \in 1..Len(T) : T[i] \in Punctuation \/ (ended /\ i = Len(T))}

\* The fragment of T that ends at position e
FragmentTo(T, e) ==
    LET before == {i \in 1..(e - 1) : T[i] \in Punctuation}
        from == IF before = {} THEN 1
                ELSE 1 + CHOOSE i \in before : \A k \in before : k <= i
    IN  SubSeq(T, from, e)

\* triggerFeedbackPhase has got the result of the stream
StreamEnded == feedbackStarts > 0 /\ feedbackPc.streaming = 0

\* C11: whatever chunks the feedback text fullFeedbackText arrived in, the
\* speech segments requested so far are, in text order, its fragments that end
\* at '.', '?', '!' or newline and, once the stream has ended, the fragment
\* after the last terminator, each of them only if it is not all white space;
\* while the stream runs textBuffer is the text after the last terminator.
C11_SegmentsAreFragments ==
    LET T == fullFeedbackText
        ends == {e \in FragmentEnds(T, StreamEnded) : ~IsBlank(FragmentTo(T, e))}
        nth(k) == CHOOSE e \in ends : Cardinality({d \in ends : d < e}) = k - 1
    IN  /\ Len(speechSegments) = Cardinality(ends)
        /\ \A k \in 1..Len(speechSegments) :
               speechSegments[k].text = FragmentTo(T, nth(k))
        /\ ~StreamEnded =>
               textBuffer = Substring(T, Len(T) - Len(textBuffer))
               /\ \A i \in 1..Len(textBuffer) : textBuffer[i] \notin Punctuation
               /\ (Len(textBuffer) < Len(T)
                   => T[Len(T) - Len(textBuffer)] \in Punctuation)

\* The text "a. a." (as 'Great job. Keep practicing!') has been streamed: two
\* segments are requested, in the order of the text
C11_Witness ==
    /\ lastEvent = "feedbackChunk"
    /\ fullFeedbackText = <<"a", ".", " ", "a", ".">>
    /\ Len(speechSegments) = 2
    /\ speechSegments[1].text = <<"a", ".">>
    /\ speechSegments[2].text = <<" ", "a", ".">>

\* Segment i has started playing
Started(i) == speechSegments[i].st \in {"playing", "done"}

\* Segment i has finished playing, or will never play (no audio came back)
Finished(i) == speechSegments[i].st \in {"done", "null"}

C14_TwoConsecutiveClean ==
    [][/\ (lobbyAnalyses' = lobbyAnalyses - 1 /\ ~received'[Len(received')])
           => clearChecks' = 0
       /\ (~proctoringPassed /\ proctoringPassed')
           => /\ Len(received') >= 2
              /\ received'[Len(received')]
              /\ received'[Len(received') - 1]]_vars

\* Clean, not clean, clean have been received: the count is 1 and the check
\* has not passed
C14_Witness ==
    /\ received = <<TRUE, FALSE, TRUE>>
    /\ clearChecks = 1
    /\ ~proctoringPassed
    /\ lastEvent = "lobbyResult"

\* C17: the exam is started only by a step taken when the camera check has
\* passed and a non-empty fragment has been transcribed since the microphone
\* check was last started.
C17_StartNeedsBothChecks ==
    [][(~examStarted /\ examStarted') => (proctoringPassed /\ heardThisAttempt)]_vars

\* The exam has been started from the lobby after a second microphone check
C17_Witness ==
    /\ examStarted
    /\ micCheckState = "passed"
    /\ Len(micSessions) = 2
    /\ heardThisAttempt

\* C15: every analysis of the exam that returns a cheating verdict while the
\* exam is not blocked raises proctoringWarnings by exactly one, whether or
\* not other analyses are in flight.
C15_EveryDetectionCounts ==
    [][(Len(analyses') < Len(analyses) /\ lastEvent' = "analysisCheating")
          => proctoringWarnings' = proctoringWarnings + 1]_vars

\* C16: the canonical scores and the draft, whenever there are any, have an
\* overallScore that is the mean of their three category scores rounded to one
\* decimal place.
C16_OverallIsRoundedMean ==
    \A sd \in {scoreData, editedScoreData} \ {Null} :
        sd.overallScore = Round1(Mean(sd))

\* C18: the verification is a step taken while no edit is in progress, and
\* from a verified scorecard every step leaves the flag set and the canonical
\* scores, the draft and the editing mode as they are.
C18_VerifiedIsTerminal ==
    [][/\ (~isScoreVerified /\ isScoreVerified') => ~isEditingScores
       /\ isScoreVerified
           => (isScoreVerified'
               /\ UNCHANGED <<scoreData, editedScoreData, isEditingScores>>)]_vars

\* Scores that were edited and saved have been verified
C18_Witness ==
    /\ isScoreVerified
    /\ scoreData \notin AIScores
    /\ editedScoreData = Null
    /\ lastEvent = "verifyScore"

\* C19: an analysis of the exam that has failed changes neither counter of
\* warnings and does not block the exam.
C19_FailureIsNoViolation ==
    [][(Len(analyses') < Len(analyses) /\ lastEvent' = "analysisFailed")
          => UNCHANGED <<fullscreenWarnings, proctoringWarnings, isExamBlocked,
                         warningMessage, examState>>]_vars

\* An analysis has failed while the exam was in progress with warnings
\* counted before
C19_Witness ==
    /\ lastEvent = "analysisFailed"
    /\ proctoringWarnings > 0
    /\ examState = "in-progress"

\* C20: once the response of the backend contains the start tag of the score
\* block, the text delivered as feedback chunks is the response before the
\* tag.
C20_NoScoreBlockInFeedback ==
    LET tagAt == TagIndex(fullResponseText, ScoreStartTag)
    IN  (lastEvent = "feedbackChunk" /\ tagAt > 0)
            => fullFeedbackText = SubSeq(fullResponseText, 1, tagAt - 1)

\* The response has no score block that is JSON
NoScoreBlock == Trim(ScoreBlock(fullResponseText)) # <<"{">>

Flushed == examStateRef = examState

\* The session with a ref that is at most one phase behind: messages of the
\* channels and continuations may run before the effect, a change of the phase
\* and the end of a close handshake may not
NextEnding ==
    \/ Flushed /\ onStartExam
    \/ Flushed /\ handleFullscreenChange
    \/ Flushed /\ InitMedia(TRUE)
    \/ Flushed /\ InitGreeted(TRUE)
    \/ Flushed /\ handleStartExam
    \/ StartGreeting(FALSE)
    \/ WarningTimerFire
    \/ SilenceTimerFire
    \/ SyncExamStateRef
    \/ PatientOpen
    \/ \E unexpected \in BOOLEAN : Flushed /\ PatientClose(unexpected)
    \/ ReconnectTimerFire
    \/ PatientMessage(<<>>, <<>>, TRUE)
    \/ Flushed /\ FeedbackStreamEnd
    \/ Flushed /\ FeedbackAudioEnd
    \/ QaOpen
    \/ (Flushed \/ examState = "ended") /\ QaClose
    \/ Flushed /\ EndExamClick
    \/ PollTimerFire(FALSE)
    \/ HideTimerFire
    \/ \E d \in NextDeadline : Tick(d)

SpecEnding == Init /\ [][NextEnding]_vars

\* What JSON.parse can make of a score block: the scores are whatever numbers
\* the backend wrote
ParsedScores ==
    AIScores \cup
    {[rapport |-> r, historyTaking |-> 4, communication |-> 4,
      overallScore |-> Round1(10 * (r + 8))] : r \in {0, StarCount + 1}}

\* The scorecard with every score block that is JSON
NextScoreRange ==
    \/ onStartExam
    \/ InitMedia(TRUE)
    \/ InitGreeted(TRUE)
    \/ PatientOpen
    \/ handleStartExam
    \/ SyncExamStateRef
    \/ PatientMessage(<<"a">>, <<"a">>, TRUE)
    \/ WarningTimerFire
    \/ SilenceTimerFire
    \/ PollTimerFire(FALSE)
    \/ \E d \in NextDeadline : Tick(d)
    \/ \E text \in BlockChunks : StreamChunk(text)
    \/ \E parsed \in ParsedScores \cup {Null} : StreamReturn(FALSE, parsed)
    \/ handleEditScores
    \/ handleCancelEditScores
    \/ handleSaveScores
    \/ \E category \in Categories, newScore \in 1..StarCount :
           handleScoreChange(category, newScore)
    \/ VerifyScore

SpecScoreRange == Init /\ [][NextScoreRange]_vars

\* The start of the conversation on each of its paths, in a session whose
\* patient channel sends transcriptions but never completes a turn.  The
\* button is clicked in a render whose effects have run
NextStart ==
    \/ onStartExam
    \/ handleFullscreenChange
    \/ InitMedia(TRUE)
    \/ InitGreeted(TRUE)
    \/ PatientOpen
    \/ Flushed /\ handleStartExam
    \/ SyncExamStateRef
    \/ \E hasAudio \in BOOLEAN : StartGreeting(hasAudio)
    \/ \E ok \in BOOLEAN : StartPlayback(ok)
    \/ PatientMessage(<<"a">>, <<>>, FALSE)
    \/ WarningTimerFire
    \/ SilenceTimerFire
    \/ PollTimerFire(FALSE)
    \/ HideTimerFire
    \/ \E d \in NextDeadline : Tick(d)

\* Effects run, textToSpeech returns, the playback of the greeting ends or
\* fails, time passes and timers that are due fire
SpecStart ==
    /\ Init /\ [][NextStart]_vars
    /\ WF_vars(SyncExamStateRef)
    /\ WF_vars(\E hasAudio \in BOOLEAN : StartGreeting(hasAudio))
    /\ WF_vars(\E ok \in BOOLEAN : StartPlayback(ok))
    /\ WF_vars(WarningTimerFire)
    /\ WF_vars(SilenceTimerFire)
    /\ WF_vars(PollTimerFire(FALSE))
    /\ WF_vars(HideTimerFire)
    /\ WF_vars(\E d \in NextDeadline : Tick(d))

\* The feedback stream after a conversation of student turns, on a patient
\* channel that may deliver more turns while its close is under way
NextPlaceholder ==
    \/ onStartExam
    \/ InitMedia(TRUE)
    \/ InitGreeted(TRUE)
    \/ PatientOpen
    \/ handleStartExam
    \/ SyncExamStateRef
    \/ StartGreeting(FALSE)
    \/ PatientMessageUpTo(MaxTranscript + 2, <<"a">>, <<>>, TRUE)
    \/ PatientClose(FALSE)
    \/ WarningTimerFire
    \/ SilenceTimerFire
    \/ PollTimerFire(FALSE)
    \/ \E d \in NextDeadline : Tick(d)
    \/ \E text \in {<<"a">>, <<"a", ".">>} : StreamChunk(text)
    \/ \E failed \in BOOLEAN : StreamReturn(failed, Null)

SpecPlaceholder == Init /\ [][NextPlaceholder]_vars

\* A step that asks for the end of the session: the End Exam button, the
\* close callback of the examiner channel, or the block
EndRequested ==
    \/ lastEvent' \in {"endClick", "qaClose"}
    \/ isExamBlocked' /\ ~isExamBlocked

\* C22: an end request in phase ended leaves the phase, the channels, the
\* watchdog timers, the transcript and the scores as they are (the close callback only records that the
\* examiner channel is closed).
C22_EndingIsIdempotent ==
    [][(examState = "ended" /\ EndRequested)
          => /\ examState' = "ended"
             /\ UNCHANGED <<patientCh, sessionPromiseRef, wdVars, transcripts,
                            scoreData>>
             /\ qaCh' = IF lastEvent' = "qaClose" THEN "closed" ELSE qaCh]_vars

\* The session was ended by the End Exam button and the close callback of its
\* own channel close has run
C22_Witness ==
    /\ examState = "ended"
    /\ lastEvent = "qaClose"
    /\ ~isExamBlocked
    /\ qaCh = "closed"

\* C23: a step that raises the sum of the counters and does not block the
\* session shows a warning with the number of the sum after the step.
C23_WarningNumberIsSum ==
    [][(/\ fullscreenWarnings' + proctoringWarnings' >
               fullscreenWarnings + proctoringWarnings
        /\ ~isExamBlocked')
          => /\ warningMessage' # NoMessage
             /\ warningMessage'.n = fullscreenWarnings' + proctoringWarnings']_vars

\* C24: on the step that blocks the session the message is the one of the rule
\* that blocked it: the lock message when a fullscreen exit took the
\* fullscreen counter to 2, the termination message when the sum of the
\* counters reached 5.
C24_BlockMessageNamesRule ==
    [][(isExamBlocked' /\ ~isExamBlocked)
          => IF fullscreenWarnings' > fullscreenWarnings
                /\ fullscreenWarnings' >= FullscreenLimit
             THEN warningMessage' = LockedMessage
             ELSE /\ fullscreenWarnings' + proctoringWarnings' >= WarningLimit
                  /\ warningMessage' = TerminatedMessage]_vars

\* The session has just been blocked by the fifth warning, with one
\* fullscreen exit
C24_Witness ==
    /\ isExamBlocked
    /\ lastEvent = "analysisCheating"
    /\ fullscreenWarnings = 1
    /\ fullscreenWarnings + proctoringWarnings = WarningLimit
    /\ warningMessage = TerminatedMessage

\* C25: handleEditScores copies scoreData into the draft and leaves it as it
\* is; while the scores are edited every step but handleSaveScores leaves
\* scoreData unchanged, so it is what it was when the editing began;
\* handleCancelEditScores leaves no draft; handleSaveScores makes scoreData
\* the draft and leaves no draft.
C25_DraftFrame ==
    [][/\ (~isEditingScores /\ isEditingScores')
           => scoreData' = scoreData /\ editedScoreData' = scoreData
       /\ isEditingScores
           => /\ lastEvent' # "saveScores" => scoreData' = scoreData
              /\ lastEvent' = "cancelEdit"
                   => editedScoreData' = Null /\ ~isEditingScores'
              /\ lastEvent' = "saveScores"
                   => /\ scoreData' = editedScoreData
                      /\ editedScoreData' = Null
                      /\ ~isEditingScores']_vars

\* Edited scores have been committed: the scores of the backend are 4 or 5
C25_Witness ==
    /\ lastEvent = "saveScores"
    /\ scoreData # Null
    /\ scoreData.rapport = 1
    /\ editedScoreData = Null
    /\ ~isEditingScores

\* The category scores of sd are integers from 1 to 5
InRange(sd) == sd # Null => \A c \in Categories : sd[c] \in 1..StarCount

\* C26: the category scores of scoreData and of the draft are integers from
\* 1 to 5 in every reachable state.
C26_ScoresInRange == InRange(scoreData) /\ InRange(editedScoreData)

\* C27: the step that ends handleStartExam in phase in-progress (textToSpeech
\* gave null, the greeting ended, or its playback failed) leaves both
\* watchdog timers armed; and when no turn ever completes, phase in-progress
\* leads to another phase.
C27_StartArmsWatchdog ==
    /\ [][(startPc # "done" /\ startPc' = "done" /\ examStateRef = "in-progress")
             => /\ silenceTimerRef' = SilenceDelay
                /\ SilenceDelay \in silenceTimers'
                /\ warningTimerRef' = WarnDelay
                /\ WarnDelay \in warningTimers']_vars
    /\ (examState = "in-progress") ~> (examState # "in-progress")

\* The playback of the greeting failed and the watchdog, armed by the catch
\* block, has ended phase in-progress
C27_Witness ==
    /\ startPc = "done"
    /\ isPatientSpeaking
    /\ examState = "feedback"
    /\ lastEvent = "silenceTimer"

\* C28: at most one warning timer and at most one silence timer are pending,
\* each is the one its ref holds, and when both are pending the silence
\* timer is due 5 s after the warning timer (they were armed together).
C28_OnePairOfTimers ==
    /\ Cardinality(warningTimers) <= 1
    /\ Cardinality(silenceTimers) <= 1
    /\ warningTimers \subseteq {warningTimerRef}
    /\ silenceTimers \subseteq {silenceTimerRef}
    /\ \A w \in warningTimers, t \in silenceTimers :
           t - w = SilenceDelay - WarnDelay

\* A turn has completed when the warning timer of the first arming had just
\* fired (15 s after the start, 1 s after the second poll) and its silence
\* timer was pending: one fresh pair is pending
C28_Witness ==
    /\ lastEvent = "turnComplete"
    /\ startPc = "done"
    /\ examState = "in-progress"
    /\ examStateRef = "in-progress"
    /\ pollTimer = 3 * PollInterval - WarnDelay
    /\ warningTimers = {WarnDelay}
    /\ silenceTimers = {SilenceDelay}

\* The inactivity indicator is on the screen: the screen of phase ended does
\* not hold it
IndicatorShown == silenceWarningVisible /\ examState # "ended"

\* C29: in every state whose phase is not in-progress no watchdog timer is
\* pending and the inactivity indicator is not shown.
C29_WatchdogOnlyInProgress ==
    examState # "in-progress"
        => /\ silenceTimers = {}
           /\ warningTimers = {}
           /\ ~IndicatorShown

\* The positions of the Examiner entries of the transcript ts
ExaminerAt(ts) == {i \in 1..Len(ts) : ts[i].role = "Examiner"}

\* The text streamDetailedExaminerFeedback returns as feedbackText after it
\* has streamed the response
ReturnedText(failed) == IF failed THEN ErrorMsg ELSE Trim(feedbackSoFar)

\* C30: in phase feedback the transcript holds exactly one Examiner entry;
\* a step of a streamed response (a chunk, or the return at its end) leaves
\* the length of the transcript and every other entry as they are; after a
\* chunk that was delivered the text of the placeholder is the text delivered
\* so far, and after the return it is the returned feedback text.
C30_PlaceholderFollowsStream ==
    /\ [](examState = "feedback" => Cardinality(ExaminerAt(transcripts)) = 1)
    /\ [][(lastEvent' \in {"feedbackChunk", "feedbackReturn"} /\ ~ShortTranscript)
            => /\ Len(transcripts') = Len(transcripts)
               /\ ExaminerAt(transcripts') = ExaminerAt(transcripts)
               /\ \A i \in 1..Len(transcripts) :
                      i \notin ExaminerAt(transcripts)
                          => transcripts'[i] = transcripts[i]
               /\ \A i \in ExaminerAt(transcripts) :
                      /\ (lastEvent' = "feedbackChunk"
                             /\ fullFeedbackText' # fullFeedbackText)
                            => transcripts'[i].text = fullFeedbackText'
                      /\ lastEvent' = "feedbackReturn"
                            => \E failed \in BOOLEAN :
                                   transcripts'[i].text = ReturnedText(failed)]_vars

\* C31: a message with turnComplete that is handled after the watchdog has
\* taken the phase from in-progress to feedback leaves the transcript as it
\* is and leaves no watchdog timer pending.
C31_TurnGuardedByPhase ==
    [][(/\ lastEvent' \in TurnCompleteEvents
        /\ feedbackStarts > 0
        /\ examState # "in-progress")
          => /\ transcripts' = transcripts
             /\ silenceTimers' = {}
             /\ warningTimers' = {}]_vars

----------------------------------------------------------------------------
\* The feedback phase and the q&a phase with the audio of the examiner
\* channel: a spoken feedback of one sentence, and up to MaxQaAudio chunks
NextExaminerAudio ==
    \/ onStartExam
    \/ InitMedia(TRUE)
    \/ InitGreeted(TRUE)
    \/ PatientOpen
    \/ handleStartExam
    \/ SyncExamStateRef
    \/ StartGreeting(FALSE)
    \/ PatientTurn
    \/ WarningTimerFire
    \/ SilenceTimerFire
    \/ PollTimerFire(FALSE)
    \/ \E d \in NextDeadline : Tick(d)
    \/ StreamChunk(<<"a", ".">>)
    \/ StreamReturn(FALSE, Null)
    \/ \E i \in 1..MaxFeedback : SpeechSynthesized(i, TRUE)
    \/ \E k \in 1..MaxFeedback : SegmentStart(k)
    \/ \E k \in 1..MaxFeedback : SegmentEnd(k)
    \/ AudioQueueDone
    \/ QaOpen
    \/ QaAudioMessage
    \/ \E i \in 1..MaxQaAudio : QaAudioDecoded(i)
    \/ \E i \in 1..MaxQaAudio : QaAudioEnded(i)

SpecExaminerAudio == Init /\ [][NextExaminerAudio]_vars

\* The examiner utterances that are playing: feedback segments and chunks of
\* the examiner channel
ExaminerPlaying ==
    Cardinality(ChunksIn(speechSegments, "playing"))
    + Cardinality(ChunksIn(qaAudio, "playing"))

\* C32: in every state at most one examiner utterance is playing, counting
\* the feedback speech segments and the audio chunks of the q&a channel.
C32_OneExaminerUtterance == ExaminerPlaying <= 1

\* C32, its first half alone: at most one feedback speech segment is playing
C32_SegmentsSequential == Cardinality(ChunksIn(speechSegments, "playing")) <= 1

\* C32 for the examiner channel alone: at most one of its chunks is playing
C32_QaChunksSequential == Cardinality(ChunksIn(qaAudio, "playing")) <= 1


----------------------------------------------------------------------------
\* The audio of the patient channel from the mount on: chunks of one or two
\* clock units that arrive at any time, also while earlier ones are decoded
NextPatientAudio ==
    \/ onStartExam
    \/ InitMedia(TRUE)
    \/ InitGreeted(TRUE)
    \/ PatientOpen
    \/ OutputClockTick
    \/ \E duration \in 1..MaxChunkDuration : PatientAudioMessage(duration)
    \/ \E i \in 1..MaxPatientAudio : PatientAudioDecoded(i)
    \/ \E i \in 1..MaxPatientAudio : PatientAudioEnded(i)

SpecPatientAudio == Init /\ [][NextPatientAudio]_vars

\* The chunks for which source.start has been called
StartedChunks(chunks) == ChunksIn(chunks, "scheduled") \cup ChunksIn(chunks, "ended")

\* C33, the cursor: nextStartTimeRef never decreases
C33_CursorMonotonic == [][nextStartTimeRef' >= nextStartTimeRef]_vars

\* C33, the schedule: a chunk is started at or after the end of every chunk
\* that was started before it
C33_BehindPrevious ==
    \A i, j \in StartedChunks(patientAudio) :
        patientAudio[j].order < patientAudio[i].order
            => patientAudio[i].start
                   >= patientAudio[j].start + patientAudio[j].duration

\* C33, the playback time: a chunk's start time is not before currentTime
\* when source.start is called
C33_NotInThePast ==
    \A i \in StartedChunks(patientAudio) :
        patientAudio[i].start >= patientAudio[i].calledAt

\* C33, the outcome: no two chunks play at the same time
C33_NoOverlap ==
    \A i, j \in StartedChunks(patientAudio) :
        i # j => \/ PlayEnd(patientAudio[i]) <= PlayBegin(patientAudio[j])
                 \/ PlayEnd(patientAudio[j]) <= PlayBegin(patientAudio[i])

\* C33: the start-time cursor never decreases, every chunk of the patient
\* channel is started at or after the end of the chunk started before it and
\* not before the current playback time, and no two chunks overlap.
C33_CursorSchedulesBackToBack ==
    /\ C33_CursorMonotonic
    /\ [](C33_BehindPrevious /\ C33_NotInThePast /\ C33_NoOverlap)


\* A channel that is open, or being opened, with no close asked for
Unreleased(ch) == ch \in {"connecting", "open"}

\* C34: once the phase is ended (and the effects of that render have run) no
\* silence, warning, reconnection or proctoring timer is pending and neither
\* channel is open or being opened.
C34_EndReleasesEverything ==
    (examState = "ended" /\ examStateRef = "ended")
        => /\ silenceTimers = {}
           /\ warningTimers = {}
           /\ reconnectTimer = NoTimer
           /\ pollTimer = NoTimer
           /\ ~Unreleased(patientCh)
           /\ ~Unreleased(qaCh)


----------------------------------------------------------------------------
\* The feedback phase with a backend that fails: the stream may throw, at
\* its start or after chunks, and any synthesis may return null
NextRecover ==
    \/ onStartExam
    \/ InitMedia(TRUE)
    \/ InitGreeted(TRUE)
    \/ PatientOpen
    \/ handleStartExam
    \/ SyncExamStateRef
    \/ StartGreeting(FALSE)
    \/ PatientTurn
    \/ WarningTimerFire
    \/ SilenceTimerFire
    \/ PollTimerFire(FALSE)
    \/ \E d \in NextDeadline : Tick(d)
    \/ \E text \in {<<"a", ".">>, <<"a">>} : StreamChunk(text)
    \/ \E failed \in BOOLEAN : StreamReturn(failed, Null)
    \/ \E i \in 1..MaxFeedback, ok \in BOOLEAN : SpeechSynthesized(i, ok)
    \/ \E k \in 1..MaxFeedback : SegmentStart(k)
    \/ \E k \in 1..MaxFeedback : SegmentEnd(k)
    \/ AudioQueueDone

\* The backend answers every request, with a result or a failure; playback
\* that has been chained starts and ends, and a resolved Promise.all lets
\* triggerFeedbackPhase go on
SpecRecover ==
    /\ Init /\ [][NextRecover]_vars
    /\ WF_vars(\E failed \in BOOLEAN : StreamReturn(failed, Null))
    /\ WF_vars(\E i \in 1..MaxFeedback, ok \in BOOLEAN : SpeechSynthesized(i, ok))
    /\ WF_vars(\E k \in 1..MaxFeedback : SegmentStart(k))
    /\ WF_vars(\E k \in 1..MaxFeedback : SegmentEnd(k))
    /\ WF_vars(AudioQueueDone)

\* C35: with a feedback stream that may fail and a speech synthesis that may
\* return null for any of the segments, phase feedback is always followed by
\* phase q&a or phase ended.
C35_FeedbackRecovers ==
    (examState = "feedback") ~> (examState \in {"q&a", "ended"})

\* C35 occurs: q&a has been reached after the stream failed behind a
\* delivered chunk, with a segment skipped for a null synthesis
C35_Witness ==
    /\ examState = "q&a"
    /\ Len(fullFeedbackText) > Len(ErrorMsg)
    /\ SubSeq(fullFeedbackText, Len(fullFeedbackText) - Len(ErrorMsg) + 1,
              Len(fullFeedbackText)) = ErrorMsg
    /\ \E i \in 1..Len(speechSegments) : speechSegments[i].st = "null"
    /\ \E i \in 1..Len(speechSegments) : speechSegments[i].st = "done"


\* C36: a step that requests a patient channel is taken in phase
\* initializing or in-progress, and the callback of the reconnection timer
\* that runs in another phase leaves the channel and sessionPromiseRef as
\* they are.
C36_PatientChannelOnlyInConversation ==
    [][/\ (patientCh' = "connecting" /\ patientCh # "connecting")
            => examState \in {"initializing", "in-progress"}
       /\ (lastEvent' = "reconnect"
           /\ examState \notin {"initializing", "in-progress"})
            => (patientCh' = patientCh
                /\ sessionPromiseRef' = sessionPromiseRef)]_vars


\* C37: from a state in which the phase is ended and the session is not
\* blocked, no step changes fullscreenWarnings or proctoringWarnings or
\* blocks the session.
C37_CompletedStaysCompleted ==
    [][(examState = "ended" /\ ~isExamBlocked)
          => /\ fullscreenWarnings' = fullscreenWarnings
             /\ proctoringWarnings' = proctoringWarnings
             /\ isExamBlocked' = isExamBlocked]_vars


\* C38: while the session is blocked, a step from a state in which a block
\* message is displayed leads to a state in which the same block message is
\* displayed.
C38_BlockMessageStays ==
    [][(isExamBlocked /\ warningMessage \in {LockedMessage, TerminatedMessage})
          => warningMessage' = warningMessage]_vars


\* C39, the pass: once proctoringPassed is true it stays true
C39_PassIsKept == [][proctoringPassed => proctoringPassed']_vars

\* C39: in the lobby, once proctoringPassed is true it stays true whatever
\* result arrives, and no step starts another frame analysis.
C39_PassIsFinal ==
    [][proctoringPassed
          => /\ proctoringPassed'
             /\ lobbyAnalyses' <= lobbyAnalyses]_vars


\* The text of the last transcript entry, where triggerFeedbackPhase writes
\* the returned feedbackText when no turn was appended behind the placeholder
LastText(ts) == IF ts = <<>> THEN <<>> ELSE ts[Len(ts)].text

\* C40: when streamDetailedExaminerFeedback has returned, the chunks it
\* delivered, put together, are the returned feedback text up to whitespace
\* at both ends.
C40_DeliveredIsReturned ==
    [][lastEvent' = "feedbackReturn"
          => Trim(fullFeedbackText') = Trim(LastText(transcripts'))]_vars

====
